---- MODULE Spec2Model ----
(***************************************************************************)
(* Model of the Python API extractor (langchain_extractor_python):         *)
(*   extractor.py   PythonExtractor: _walk, _should_include,               *)
(*                  _extract_symbol, _get_signature, ...                   *)
(*   transformer.py IRTransformer: transform, _transform_symbol, ...       *)
(*   cli.py         main: extract, then transform                          *)
(*                                                                         *)
(* Python strings the code inspects character by character (names, paths,  *)
(* exclusion patterns, parameter kinds) are sequences of one-character     *)
(* strings, so that startswith / endswith / "in" are computed.             *)
(***************************************************************************)
EXTENDS Integers, Sequences, FiniteSets, TLC

VARIABLES
    graph,      \* the symbol graph griffe.load() returned (read-only)
    cfg,        \* ExtractionConfig
    pc,         \* position of the run: start, walk, body, transform, done, idle
    stack,      \* the suspended/running _walk generator frames, innermost last
    visited,    \* extract(): visited, the set of paths _walk has seen
    yielded,    \* history: the nodes _walk has yielded, in order
    via,        \* history: via[n], the node whose frame recursed into n
    symbols,    \* extract(): symbols
    errors,     \* extract(): errors
    ir,         \* transform(): symbols
    tpos,       \* transform(): index of the raw symbol handled next
    stdout,     \* warnings _transform_symbol printed
    run,        \* which extraction of the same source this is (1 or 2)
    firstOut,   \* the symbols array the first extraction produced
    flt,        \* one call of _should_include: its object and its result
    sig,        \* one call of _get_signature: its parameters and its result
    call        \* one call of another helper: its arguments and its result

vars == <<graph, cfg, pc, stack, visited, yielded, via, symbols, errors, ir,
          tpos, stdout, run, firstOut, flt, sig, call>>

pipeVars == <<graph, cfg, pc, stack, visited, yielded, via, symbols, errors,
              ir, tpos, stdout, run, firstOut>>

(***************************************************************************)
(* Bounds                                                                  *)
(***************************************************************************)
MaxNodes == 4

MaxNameLen == 5

MaxParams == 5

Nodes == 1..MaxNodes
Root == 1
NoNode == 0

(***************************************************************************)
(* Python str operations                                                   *)
(***************************************************************************)
\* s.startswith(p)
StartsWith(s, p) == Len(s) >= Len(p) /\ SubSeq(s, 1, Len(p)) = p

\* s.endswith(p)
EndsWith(s, p) == Len(s) >= Len(p) /\ SubSeq(s, Len(s) - Len(p) + 1, Len(s)) = p

\* p in s
Contains(s, p) == \E i \in 0..(Len(s) - Len(p)) : SubSeq(s, i + 1, i + Len(p)) = p

\* s.replace(a, b) for one-character a and b
RECURSIVE Replace(_, _, _)
Replace(s, a, b) ==
    IF s = <<>> THEN <<>>
    ELSE <<IF Head(s) = a THEN b ELSE Head(s)>> \o Replace(Tail(s), a, b)

\* the elements of a sequence
Range(s) == {s[i] : i \in 1..Len(s)}

\* the position of the first occurrence of x in s (0 when absent)
IndexOf(s, x) ==
    IF x \in Range(s) THEN CHOOSE i \in 1..Len(s) : s[i] = x /\ \A j \in 1..(i - 1) : s[j] # x
    ELSE 0

(***************************************************************************)
(* The symbol graph (griffe objects) and the configuration                 *)
(***************************************************************************)
Letters == <<"a", "b", "c", "d", "e", "f", "g", "h">>

NodeSeq == [i \in 1..MaxNodes |-> i]

\* what goes wrong when an attribute of a node is read or a symbol is handled:
\*   path, is_alias, members: the attribute raises (not an AttributeError)
\*   name: the name is unusable, _should_include raises
\*   extract: _extract_symbol raises inside its try
\*   transform: _transform_symbol raises inside its try
FaultKinds == {"path", "is_alias", "members", "name", "extract", "transform"}

Styles == {"private", "dunder", "sunder"}

\* a, _a, __a__, __a
StyledName(i, style) ==
    CASE style = "private" -> <<"_", Letters[i]>>
      [] style = "dunder"  -> <<"_", "_", Letters[i], "_", "_">>
      [] style = "sunder"  -> <<"_", "_", Letters[i]>>
      [] OTHER             -> <<Letters[i]>>

\* the ownership trees over Nodes: every node but the root has an earlier parent
ParentMaps == {p \in [2..MaxNodes -> Nodes] : \A i \in 2..MaxNodes : p[i] < i}

TreeChildren(par, n) == SelectSeq(NodeSeq, LAMBDA i : i # Root /\ par[i] = n)

\* one more entry of a members mapping, pointing at a node the mapping does
\* not own (an ancestor, the node itself, a node of another subtree)
NoExtra == [from |-> NoNode, to |-> NoNode, front |-> FALSE]

ExtraEdges(par) ==
    {NoExtra} \cup
    {e \in [from : Nodes, to : Nodes, front : BOOLEAN] :
        e.to \notin Range(TreeChildren(par, e.from))}

MkGraph(par, styleNode, style, extra, aliasNode, faultNode, faultKind) ==
    LET name == [i \in Nodes |->
                    IF i = styleNode THEN StyledName(i, style) ELSE <<Letters[i]>>]
        parent == [i \in Nodes |-> IF i = Root THEN NoNode ELSE par[i]]
        path[i \in Nodes] ==
            IF i = Root THEN name[i] ELSE path[par[i]] \o <<".">> \o name[i]
        members == [n \in Nodes |->
            LET ch == TreeChildren(par, n) IN
            IF extra.from = n
            THEN IF extra.front THEN <<extra.to>> \o ch ELSE ch \o <<extra.to>>
            ELSE ch]
    IN [name     |-> name,
        path     |-> path,
        parent   |-> parent,
        members  |-> members,
        kind     |-> [i \in Nodes |->
                        IF i = Root THEN "module"
                        ELSE IF TreeChildren(par, i) # <<>> THEN "class"
                        ELSE "function"],
        is_alias |-> [i \in Nodes |-> i = aliasNode],
        fault    |-> [i \in Nodes |-> IF i = faultNode THEN faultKind ELSE "none"]]

PatternLists == {<<>>, << <<".", "b">> >>, << <<"c">>, <<"_">> >>}

DefaultCfg ==
    [include_private |-> FALSE, include_special |-> FALSE, exclude_patterns |-> <<>>]

Configs ==
    [include_private : BOOLEAN, include_special : BOOLEAN, exclude_patterns : PatternLists]

\* graphs with cycles, back pointers and aliases
ScenCycles ==
    \E par \in ParentMaps, a \in {NoNode} \cup (Nodes \ {Root}) :
      \E extra \in ExtraEdges(par) :
        /\ graph = MkGraph(par, NoNode, "public", extra, a, NoNode, "none")
        /\ cfg \in {c \in Configs : ~c.include_private /\ ~c.include_special
                                    /\ Len(c.exclude_patterns) < 2}

\* trees with one node that fails
ScenFaults ==
    \E par \in ParentMaps, f \in Nodes, k \in FaultKinds, a \in {NoNode} \cup (Nodes \ {Root}) :
        /\ graph = MkGraph(par, NoNode, "public", NoExtra, a, f, k)
        /\ cfg = DefaultCfg

\* trees with one private, dunder or half-dunder name, under every configuration
ScenNames ==
    \E par \in ParentMaps, n \in Nodes, style \in Styles :
        /\ graph = MkGraph(par, n, style, NoExtra, NoNode, NoNode, "none")
        /\ cfg \in Configs

IdleFlt == [done |-> FALSE, name |-> <<>>, is_alias |-> FALSE, path |-> <<>>,
            result |-> FALSE]

IdleSig == [done |-> FALSE, parameters |-> <<>>, params |-> <<>>]

IdleCall == [done |-> FALSE]

\* extract() lines 102-105, before the first call of _walk
PipeStart ==
    /\ pc = "start"
    /\ stack = <<>>
    /\ visited = {}
    /\ yielded = <<>>
    /\ via = [n \in Nodes |-> NoNode]
    /\ symbols = <<>>
    /\ errors = <<>>
    /\ ir = <<>>
    /\ tpos = 1
    /\ stdout = <<>>
    /\ run = 1
    /\ firstOut = <<>>

Init ==
    /\ ScenCycles \/ ScenFaults \/ ScenNames
    /\ PipeStart
    /\ flt = IdleFlt
    /\ sig = IdleSig
    /\ call = IdleCall

(***************************************************************************)
(* PythonExtractor._should_skip_module                                     *)
(***************************************************************************)
\* mutant: the pattern is matched as a prefix of the path, not as a substring
ShouldSkipModulePrefix(module_path) ==
    /\ cfg.exclude_patterns # <<>>
    /\ \E i \in 1..Len(cfg.exclude_patterns) :
          StartsWith(module_path, cfg.exclude_patterns[i])

ShouldSkipModule(module_path) ==
    /\ cfg.exclude_patterns # <<>>
    /\ \E i \in 1..Len(cfg.exclude_patterns) :
          Contains(module_path, cfg.exclude_patterns[i])

(***************************************************************************)
(* PythonExtractor._walk, lines 147-165: from the call on a node to its    *)
(* yield or its return.  outcome: "error" (caught at line 180), "revisit", *)
(* "skip", "alias" (all three return) or "yield".                          *)
(***************************************************************************)
\* mutant: the visited set is filled but never consulted
WalkEnterNoVisited(n, vis) ==
    IF graph.fault[n] = "path" THEN [outcome |-> "error", visited |-> vis]
    ELSE LET v == vis \cup {graph.path[n]} IN
         IF ShouldSkipModule(graph.path[n]) THEN [outcome |-> "skip", visited |-> v]
         ELSE IF graph.fault[n] = "is_alias" THEN [outcome |-> "error", visited |-> v]
         ELSE IF graph.is_alias[n] THEN [outcome |-> "alias", visited |-> v]
         ELSE [outcome |-> "yield", visited |-> v]

\* mutant: aliases are walked like every other object
WalkEnterAliases(n, vis) ==
    IF graph.fault[n] = "path" THEN [outcome |-> "error", visited |-> vis]
    ELSE IF graph.path[n] \in vis THEN [outcome |-> "revisit", visited |-> vis]
    ELSE LET v == vis \cup {graph.path[n]} IN
         IF ShouldSkipModule(graph.path[n]) THEN [outcome |-> "skip", visited |-> v]
         ELSE IF graph.fault[n] = "is_alias" THEN [outcome |-> "error", visited |-> v]
         ELSE [outcome |-> "yield", visited |-> v]

WalkEnter(n, vis) ==
    IF graph.fault[n] = "path" THEN [outcome |-> "error", visited |-> vis]
    ELSE IF graph.path[n] \in vis THEN [outcome |-> "revisit", visited |-> vis]
    ELSE LET v == vis \cup {graph.path[n]} IN
         IF ShouldSkipModule(graph.path[n]) THEN [outcome |-> "skip", visited |-> v]
         ELSE IF graph.fault[n] = "is_alias" THEN [outcome |-> "error", visited |-> v]
         ELSE IF graph.is_alias[n] THEN [outcome |-> "alias", visited |-> v]
         ELSE [outcome |-> "yield", visited |-> v]

\* mutant: the members are iterated last to first
RECURSIVE Reverse(_)
Reverse(s) == IF s = <<>> THEN <<>> ELSE Append(Reverse(Tail(s)), Head(s))

MemberItemsReversed(n) == Reverse(graph.members[n])

\* list(members.items()), line 170: the members in the mapping's order
MemberItems(n) == graph.members[n]

Top == stack[Len(stack)]
Pop(s) == SubSeq(s, 1, Len(s) - 1)

(***************************************************************************)
(* PythonExtractor._should_include, on an object's name, alias flag, path  *)
(***************************************************************************)
\* mutant: a leading double marker is enough to count as a special name
ShouldIncludeObjLeadingOnly(name, is_alias, path) ==
    IF is_alias THEN FALSE
    ELSE IF StartsWith(name, <<"_">>) /\ ~cfg.include_private
    THEN /\ cfg.include_special
         /\ StartsWith(name, <<"_", "_">>)
    ELSE ~(/\ cfg.exclude_patterns # <<>>
           /\ \E i \in 1..Len(cfg.exclude_patterns) :
                 Contains(path, cfg.exclude_patterns[i]))

ShouldIncludeObj(name, is_alias, path) ==
    IF is_alias THEN FALSE
    ELSE IF StartsWith(name, <<"_">>) /\ ~cfg.include_private
    THEN /\ cfg.include_special
         /\ StartsWith(name, <<"_", "_">>)
         /\ EndsWith(name, <<"_", "_">>)
    ELSE ~(/\ cfg.exclude_patterns # <<>>
           /\ \E i \in 1..Len(cfg.exclude_patterns) :
                 Contains(path, cfg.exclude_patterns[i]))

ShouldInclude(n) == ShouldIncludeObj(graph.name[n], graph.is_alias[n], graph.path[n])

\* _should_include raises: the name cannot be read or is no string
ShouldIncludeRaises(n) == graph.fault[n] = "name"

(***************************************************************************)
(* PythonExtractor._get_kind                                               *)
(***************************************************************************)
KindMap(kind_str) ==
    IF kind_str \in {"module", "class", "function", "attribute", "alias"}
    THEN kind_str ELSE "unknown"

\* mutant: a function is a function wherever it is defined
GetKindNoMethod(n) ==
    IF graph.kind[n] = "none" THEN "unknown" ELSE KindMap(graph.kind[n])

GetKind(n) ==
    IF graph.kind[n] = "none" THEN "unknown"
    ELSE LET base_kind == KindMap(graph.kind[n]) IN
         IF /\ base_kind = "function"
            /\ graph.parent[n] # NoNode
            /\ graph.kind[graph.parent[n]] = "class"
         THEN "method"
         ELSE base_kind

(***************************************************************************)
(* PythonExtractor._get_member_info (name and kind of each listed member)  *)
(***************************************************************************)
RECURSIVE MemberInfoOf(_)
MemberInfoOf(ms) ==
    IF ms = <<>> THEN <<>>
    ELSE LET m == Head(ms) IN
         (IF StartsWith(graph.name[m], <<"_">>) THEN <<>>
          ELSE <<[name |-> graph.name[m], kind |-> GetKind(m)]>>)
         \o MemberInfoOf(Tail(ms))

GetMemberInfo(n) == MemberInfoOf(graph.members[n])

\* _get_member_info raises: obj.members raises (hasattr, line 653, lets every
\* exception but AttributeError through), or is_alias of a listed member does
\* (line 669)
GetMemberInfoRaises(n) ==
    \/ graph.fault[n] = "members"
    \/ \E i \in 1..Len(graph.members[n]) :
          LET m == graph.members[n][i] IN
          /\ ~StartsWith(graph.name[m], <<"_">>)
          /\ graph.fault[m] = "is_alias"

(***************************************************************************)
(* PythonExtractor._extract_symbol: zero or one record                     *)
(***************************************************************************)
ExtractRaises(n) == graph.fault[n] = "extract" \/ GetMemberInfoRaises(n)

ExtractSymbol(n) ==
    IF GetKind(n) = "unknown" THEN <<>>
    ELSE IF ExtractRaises(n) THEN <<>>
    ELSE <<[kind    |-> GetKind(n),
            name    |-> graph.name[n],
            path    |-> graph.path[n],
            members |-> GetMemberInfo(n)]>>

(***************************************************************************)
(* PythonExtractor.extract, lines 109-115: the body of the loop over _walk *)
(***************************************************************************)
\* mutant: the exception of the inclusion filter is swallowed without a warning
LoopBodySilent(n, syms, errs) ==
    IF ShouldIncludeRaises(n)
    THEN [symbols |-> syms, errors |-> errs]
    ELSE IF ShouldInclude(n)
    THEN [symbols |-> syms \o ExtractSymbol(n), errors |-> errs]
    ELSE [symbols |-> syms, errors |-> errs]

LoopBody(n, syms, errs) ==
    IF ShouldIncludeRaises(n)
    THEN [symbols |-> syms, errors |-> Append(errs, n)]
    ELSE IF ShouldInclude(n)
    THEN [symbols |-> syms \o ExtractSymbol(n), errors |-> errs]
    ELSE [symbols |-> syms, errors |-> errs]

(***************************************************************************)
(* IRTransformer                                                           *)
(***************************************************************************)
DigestMod == 251

Alphabet == Letters \o <<"_", ".">>

\* hashlib.md5(path.encode()).hexdigest()[:8]: a digest of the characters
RECURSIVE Digest(_, _)
Digest(s, h) ==
    IF s = <<>> THEN h
    ELSE Digest(Tail(s), (h * 31 + IndexOf(Alphabet, Head(s))) % DigestMod)

\* the characters of a kind
KindText(kind) ==
    CASE kind = "module" -> <<"m", "o", "d", "u", "l", "e">>
      [] kind = "class" -> <<"c", "l", "a", "s", "s">>
      [] kind = "function" -> <<"f", "u", "n", "c", "t", "i", "o", "n">>
      [] kind = "method" -> <<"m", "e", "t", "h", "o", "d">>
      [] kind = "attribute" -> <<"a", "t", "t", "r", "i", "b", "u", "t", "e">>
      [] kind = "alias" -> <<"a", "l", "i", "a", "s">>
      [] kind = "unknown" -> <<"u", "n", "k", "n", "o", "w", "n">>

HexDigits == <<"0", "1", "2", "3", "4", "5", "6", "7", "8", "9", "a", "b", "c", "d", "e", "f">>

\* hexdigest(): the digest in hexadecimal, at a fixed width
HexDigest(h) == <<HexDigits[(h \div 16) + 1], HexDigits[(h % 16) + 1]>>

\* mutant: the id without the digest of the path
GenerateSymbolIdNoHash(kind, path) ==
    <<"s", "y", "m", "_", "p", "y", "_">> \o KindText(kind) \o <<"_">> \o Replace(path, ".", "_")

\* _generate_symbol_id: f"sym_py_{kind}_{normalized_path}_{path_hash}"
GenerateSymbolId(kind, path) ==
    LET path_hash == HexDigest(Digest(path, 7))
        normalized_path == Replace(path, ".", "_")
    IN <<"s", "y", "m", "_", "p", "y", "_">> \o KindText(kind) \o <<"_">> \o normalized_path
           \o <<"_">> \o path_hash

\* mutant: the refId is computed from the member's bare name
RECURSIVE MemberRefsBareName(_, _)
MemberRefsBareName(path, ms) ==
    IF ms = <<>> THEN <<>>
    ELSE <<[name  |-> Head(ms).name,
            refId |-> GenerateSymbolId(Head(ms).kind, Head(ms).name),
            kind  |-> Head(ms).kind]>>
         \o MemberRefsBareName(path, Tail(ms))

\* lines 496-513: the member references of a class or module
RECURSIVE MemberRefs(_, _)
MemberRefs(path, ms) ==
    IF ms = <<>> THEN <<>>
    ELSE <<[name  |-> Head(ms).name,
            refId |-> GenerateSymbolId(Head(ms).kind, path \o <<".">> \o Head(ms).name),
            kind  |-> Head(ms).kind]>>
         \o MemberRefs(path, Tail(ms))

\* _transform_symbol raises inside its try
TransformRaises(raw) ==
    \E n \in Nodes : graph.path[n] = raw.path /\ graph.fault[n] = "transform"

\* _transform_symbol: zero or one IR record, and what it printed
TransformSymbol(raw) ==
    IF raw.name = <<>> \/ raw.kind = "unknown" THEN [out |-> <<>>, printed |-> <<>>]
    ELSE IF TransformRaises(raw) THEN [out |-> <<>>, printed |-> <<raw.path>>]
    ELSE [out |-> <<[id            |-> GenerateSymbolId(raw.kind, raw.path),
                     kind          |-> raw.kind,
                     name          |-> raw.name,
                     qualifiedName |-> raw.path,
                     members       |-> IF raw.kind \in {"class", "module"}
                                       THEN MemberRefs(raw.path, raw.members)
                                       ELSE <<>>]>>,
          printed |-> <<>>]

(***************************************************************************)
(* The run: cli.main calls extract(), which drives _walk, then transform() *)
(***************************************************************************)
\* extract() line 108: the first call of _walk, on the package
WalkRoot ==
    /\ pc = "start"
    /\ LET r == WalkEnter(Root, visited) IN
       /\ visited' = r.visited
       /\ IF r.outcome = "yield"
          THEN /\ stack' = <<[node |-> Root, idx |-> 0]>>
               /\ yielded' = Append(yielded, Root)
               /\ pc' = "body"
          ELSE /\ stack' = <<>>
               /\ yielded' = yielded
               /\ pc' = "walk"
    /\ UNCHANGED <<graph, cfg, via, symbols, errors, ir, tpos, stdout, run, firstOut, flt, sig, call>>

\* extract() lines 109-115, while _walk is suspended at its yield (line 165)
ExtractBody ==
    /\ pc = "body"
    /\ LET r == LoopBody(Top.node, symbols, errors) IN
       /\ symbols' = r.symbols
       /\ errors' = r.errors
    /\ pc' = "walk"
    /\ UNCHANGED <<graph, cfg, stack, visited, yielded, via, ir, tpos, stdout, run, firstOut, flt, sig, call>>

\* _walk lines 168-170: resumed after the yield, reads the members
WalkMembers ==
    /\ pc = "walk"
    /\ stack # <<>>
    /\ Top.idx = 0
    /\ IF graph.fault[Top.node] = "members" \/ MemberItems(Top.node) = <<>>
       THEN stack' = Pop(stack)
       ELSE stack' = [stack EXCEPT ![Len(stack)].idx = 1]
    /\ UNCHANGED <<graph, cfg, pc, visited, yielded, via, symbols, errors, ir, tpos, stdout, run, firstOut, flt, sig, call>>

\* _walk lines 170-179: one iteration of the loop over the members, up to
\* the member's yield or return
WalkMember ==
    /\ pc = "walk"
    /\ stack # <<>>
    /\ Top.idx \in 1..Len(MemberItems(Top.node))
    /\ LET m == MemberItems(Top.node)[Top.idx]
           next == [stack EXCEPT ![Len(stack)].idx = Top.idx + 1]
       IN IF graph.fault[m] = "path"
          THEN \* line 172 raises inside the loop: caught at line 180
               /\ stack' = Pop(stack)
               /\ UNCHANGED <<visited, yielded, via, pc>>
          ELSE IF graph.path[m] # <<>> /\ ShouldSkipModule(graph.path[m])
          THEN /\ stack' = next
               /\ UNCHANGED <<visited, yielded, via, pc>>
          ELSE LET r == WalkEnter(m, visited) IN
               /\ visited' = r.visited
               /\ IF r.outcome = "yield"
                  THEN /\ stack' = Append(next, [node |-> m, idx |-> 0])
                       /\ yielded' = Append(yielded, m)
                       /\ via' = [via EXCEPT ![m] = Top.node]
                       /\ pc' = "body"
                  ELSE /\ stack' = next
                       /\ UNCHANGED <<yielded, via, pc>>
    /\ UNCHANGED <<graph, cfg, symbols, errors, ir, tpos, stdout, run, firstOut, flt, sig, call>>

\* _walk: the loop over the members is exhausted, the generator returns
WalkReturn ==
    /\ pc = "walk"
    /\ stack # <<>>
    /\ Top.idx > Len(MemberItems(Top.node))
    /\ stack' = Pop(stack)
    /\ UNCHANGED <<graph, cfg, pc, visited, yielded, via, symbols, errors, ir, tpos, stdout, run, firstOut, flt, sig, call>>

\* extract() returns (lines 119-128); cli.main line 132 calls transform()
ExtractReturn ==
    /\ pc = "walk"
    /\ stack = <<>>
    /\ pc' = "transform"
    /\ tpos' = 1
    /\ UNCHANGED <<graph, cfg, stack, visited, yielded, via, symbols, errors, ir, stdout, run, firstOut, flt, sig, call>>

\* transform() lines 312-315: one raw symbol
TransformStep ==
    /\ pc = "transform"
    /\ tpos <= Len(symbols)
    /\ LET r == TransformSymbol(symbols[tpos]) IN
       /\ ir' = ir \o r.out
       /\ stdout' = stdout \o r.printed
    /\ tpos' = tpos + 1
    /\ UNCHANGED <<graph, cfg, pc, stack, visited, yielded, via, symbols, errors, run, firstOut, flt, sig, call>>

\* transform() returns the document (lines 317-333)
TransformReturn ==
    /\ pc = "transform"
    /\ tpos > Len(symbols)
    /\ pc' = "done"
    /\ UNCHANGED <<graph, cfg, stack, visited, yielded, via, symbols, errors, ir, tpos, stdout, run, firstOut, flt, sig, call>>

Next ==
    \/ WalkRoot
    \/ ExtractBody
    \/ WalkMembers
    \/ WalkMember
    \/ WalkReturn
    \/ ExtractReturn
    \/ TransformStep
    \/ TransformReturn

Spec == Init /\ [][Next]_vars

(***************************************************************************)
(* The same source extracted a second time (a second run of cli.main on    *)
(* the same graph and configuration)                                       *)
(***************************************************************************)
\* mutant: the visited set outlives the call (kept on the extractor)
StaleVisited == visited

\* extract() line 105: visited is a new, empty set in every call
NewVisited == {}

Rerun ==
    /\ pc = "done"
    /\ run = 1
    /\ run' = 2
    /\ firstOut' = ir
    /\ pc' = "start"
    /\ stack' = <<>>
    /\ visited' = NewVisited
    /\ yielded' = <<>>
    /\ via' = [n \in Nodes |-> NoNode]
    /\ symbols' = <<>>
    /\ errors' = <<>>
    /\ ir' = <<>>
    /\ tpos' = 1
    /\ stdout' = <<>>
    /\ UNCHANGED <<graph, cfg, flt, sig, call>>

NextTwice == Next \/ Rerun

SpecTwice == Init /\ [][NextTwice]_vars

\* the run is one synchronous thread: it takes its next step whenever it has one
SpecLive == Init /\ [][Next]_vars /\ WF_vars(Next)

(***************************************************************************)
(* One call of _should_include on an object with any name                  *)
(***************************************************************************)
NameChars == {"_", "a"}

Names == UNION {[1..k -> NameChars] : k \in 1..MaxNameLen}

\* a graph for the specifications that do not walk: the chain a, a.b, a.b.c, ...
ChainGraph ==
    MkGraph([i \in 2..MaxNodes |-> i - 1], NoNode, "public", NoExtra, NoNode, NoNode, "none")

PipeIdle ==
    /\ graph = ChainGraph
    /\ pc = "idle"
    /\ stack = <<>>
    /\ visited = {}
    /\ yielded = <<>>
    /\ via = [n \in Nodes |-> NoNode]
    /\ symbols = <<>>
    /\ errors = <<>>
    /\ ir = <<>>
    /\ tpos = 1
    /\ stdout = <<>>
    /\ run = 1
    /\ firstOut = <<>>

InitFilter ==
    /\ PipeIdle
    /\ cfg \in Configs
    /\ \E name \in Names, is_alias \in BOOLEAN, scope \in {<<"a", ".">>, <<"a", ".", "b", ".">>} :
          flt = [done |-> FALSE, name |-> name, is_alias |-> is_alias,
                 path |-> scope \o name, result |-> FALSE]
    /\ sig = IdleSig
    /\ call = IdleCall

FilterCall ==
    /\ pc = "idle"
    /\ ~flt.done
    /\ flt' = [flt EXCEPT !.done = TRUE,
                          !.result = ShouldIncludeObj(flt.name, flt.is_alias, flt.path)]
    /\ UNCHANGED <<pipeVars, sig, call>>

NextFilter == FilterCall

SpecFilter == InitFilter /\ [][NextFilter]_vars

(***************************************************************************)
(* PythonExtractor._get_signature, lines 341-407: the parameter tokens     *)
(***************************************************************************)
\* str(param.kind).lower() of griffe's ParameterKind members
KindStr(kind) ==
    CASE kind = "positional_only" ->
           <<"p", "a", "r", "a", "m", "e", "t", "e", "r", "k", "i", "n", "d", ".", "p", "o", "s", "i", "t", "i", "o", "n", "a", "l", "_", "o", "n", "l", "y">>
      [] kind = "positional_or_keyword" ->
           <<"p", "a", "r", "a", "m", "e", "t", "e", "r", "k", "i", "n", "d", ".", "p", "o", "s", "i", "t", "i", "o", "n", "a", "l", "_", "o", "r", "_", "k", "e", "y", "w", "o", "r", "d">>
      [] kind = "keyword_only" ->
           <<"p", "a", "r", "a", "m", "e", "t", "e", "r", "k", "i", "n", "d", ".", "k", "e", "y", "w", "o", "r", "d", "_", "o", "n", "l", "y">>
      [] kind = "var_positional" ->
           <<"p", "a", "r", "a", "m", "e", "t", "e", "r", "k", "i", "n", "d", ".", "v", "a", "r", "_", "p", "o", "s", "i", "t", "i", "o", "n", "a", "l">>
      [] kind = "var_keyword" ->
           <<"p", "a", "r", "a", "m", "e", "t", "e", "r", "k", "i", "n", "d", ".", "v", "a", "r", "_", "k", "e", "y", "w", "o", "r", "d">>

\* value.strip(): leading and trailing blanks removed
RECURSIVE Strip(_)
Strip(s) ==
    IF s = <<>> THEN s
    ELSE IF Head(s) \in {" ", "\n"} THEN Strip(Tail(s))
    ELSE IF s[Len(s)] \in {" ", "\n"} THEN Strip(SubSeq(s, 1, Len(s) - 1))
    ELSE s

\* the markers of a runtime object representation (lines 306-313)
InvalidPatterns ==
    { <<"<", "b", "o", "u", "n", "d", " ", "m", "e", "t", "h", "o", "d">>,
      <<"<", "f", "u", "n", "c", "t", "i", "o", "n">>,
      <<"<", "c", "l", "a", "s", "s">>,
      <<"<", "m", "o", "d", "u", "l", "e">>,
      <<"<", "b", "u", "i", "l", "t", "-", "i", "n">>,
      <<"<", "l", "a", "m", "b", "d", "a">> }

\* _is_invalid_repr
IsInvalidRepr(value) ==
    /\ value # <<>>
    /\ \E pattern \in InvalidPatterns : Contains(Strip(value), pattern)

ParamKinds ==
    {"positional_only", "positional_or_keyword", "keyword_only", "var_positional", "var_keyword"}

\* the state of the loop before its first iteration (lines 341-345)
SigStart ==
    [params |-> <<>>, has_positional_only |-> FALSE, has_keyword_only |-> FALSE,
     positional_only_added |-> FALSE, keyword_only_added |-> FALSE]

\* mutant: a var-positional parameter does not open the keyword-only section
SigStepStarAfterVarPos(st, param) ==
    LET kind_str == KindStr(param.kind)
        is_positional_only ==
            Contains(kind_str, <<"p", "o", "s", "i", "t", "i", "o", "n", "a", "l", "_", "o", "n", "l", "y">>) \/ Contains(kind_str, <<"p", "o", "s", "i", "t", "i", "o", "n", "a", "l", "-", "o", "n", "l", "y">>)
        is_keyword_only ==
            Contains(kind_str, <<"k", "e", "y", "w", "o", "r", "d", "_", "o", "n", "l", "y">>) \/ Contains(kind_str, <<"k", "e", "y", "w", "o", "r", "d", "-", "o", "n", "l", "y">>)
        is_var_positional ==
            Contains(kind_str, <<"v", "a", "r", "_", "p", "o", "s", "i", "t", "i", "o", "n", "a", "l">>) \/ Contains(kind_str, <<"v", "a", "r", "-", "p", "o", "s", "i", "t", "i", "o", "n", "a", "l">>)
        is_var_keyword ==
            Contains(kind_str, <<"v", "a", "r", "_", "k", "e", "y", "w", "o", "r", "d">>) \/ Contains(kind_str, <<"v", "a", "r", "-", "k", "e", "y", "w", "o", "r", "d">>)
        \* lines 365-370
        slash == ~is_positional_only /\ st.has_positional_only /\ ~st.positional_only_added
        \* lines 373-377
        kw == is_keyword_only /\ ~st.has_keyword_only /\ ~is_var_positional
        star == kw /\ ~st.keyword_only_added
        \* lines 380-386
        base == IF is_var_positional THEN <<"*">> \o param.name
                ELSE IF is_var_keyword THEN <<"*", "*">> \o param.name
                ELSE param.name
        \* lines 389-394
        annotated == IF param.annotation # <<>> /\ ~IsInvalidRepr(param.annotation)
                     THEN base \o <<":", " ">> \o param.annotation
                     ELSE base
        \* lines 397-401
        param_str == IF param.default # <<>> /\ ~IsInvalidRepr(param.default)
                     THEN annotated \o <<" ", "=", " ">> \o param.default
                     ELSE annotated
    IN [params |-> st.params \o (IF slash THEN << <<"/">> >> ELSE <<>>)
                             \o (IF star THEN << <<"*">> >> ELSE <<>>)
                             \o <<param_str>>,
        has_positional_only |-> st.has_positional_only \/ is_positional_only,
        has_keyword_only |-> st.has_keyword_only \/ kw,
        positional_only_added |-> st.positional_only_added \/ slash,
        keyword_only_added |-> st.keyword_only_added \/ star]

\* one iteration of the loop (lines 347-403)
SigStep(st, param) ==
    LET kind_str == KindStr(param.kind)
        is_positional_only ==
            Contains(kind_str, <<"p", "o", "s", "i", "t", "i", "o", "n", "a", "l", "_", "o", "n", "l", "y">>) \/ Contains(kind_str, <<"p", "o", "s", "i", "t", "i", "o", "n", "a", "l", "-", "o", "n", "l", "y">>)
        is_keyword_only ==
            Contains(kind_str, <<"k", "e", "y", "w", "o", "r", "d", "_", "o", "n", "l", "y">>) \/ Contains(kind_str, <<"k", "e", "y", "w", "o", "r", "d", "-", "o", "n", "l", "y">>)
        is_var_positional ==
            Contains(kind_str, <<"v", "a", "r", "_", "p", "o", "s", "i", "t", "i", "o", "n", "a", "l">>) \/ Contains(kind_str, <<"v", "a", "r", "-", "p", "o", "s", "i", "t", "i", "o", "n", "a", "l">>)
        is_var_keyword ==
            Contains(kind_str, <<"v", "a", "r", "_", "k", "e", "y", "w", "o", "r", "d">>) \/ Contains(kind_str, <<"v", "a", "r", "-", "k", "e", "y", "w", "o", "r", "d">>)
        \* lines 365-370
        slash == ~is_positional_only /\ st.has_positional_only /\ ~st.positional_only_added
        \* lines 373-377
        kw == is_keyword_only /\ ~st.has_keyword_only /\ ~is_var_positional
        star == kw /\ ~st.keyword_only_added
        \* lines 380-386
        base == IF is_var_positional THEN <<"*">> \o param.name
                ELSE IF is_var_keyword THEN <<"*", "*">> \o param.name
                ELSE param.name
        \* lines 389-394
        annotated == IF param.annotation # <<>> /\ ~IsInvalidRepr(param.annotation)
                     THEN base \o <<":", " ">> \o param.annotation
                     ELSE base
        \* lines 397-401
        param_str == IF param.default # <<>> /\ ~IsInvalidRepr(param.default)
                     THEN annotated \o <<" ", "=", " ">> \o param.default
                     ELSE annotated
    IN [params |-> st.params \o (IF slash THEN << <<"/">> >> ELSE <<>>)
                             \o (IF star THEN << <<"*">> >> ELSE <<>>)
                             \o <<param_str>>,
        has_positional_only |-> st.has_positional_only \/ is_positional_only,
        has_keyword_only |-> st.has_keyword_only \/ kw,
        positional_only_added |-> st.positional_only_added \/ slash,
        keyword_only_added |-> st.keyword_only_added \/ star \/ is_var_positional]

RECURSIVE SigLoop(_, _)
SigLoop(parameters, st) ==
    IF parameters = <<>> THEN st
    ELSE SigLoop(Tail(parameters), SigStep(st, Head(parameters)))

\* mutant: no separator is appended after the loop
SigFinishNoTrailing(st) == st.params

\* lines 405-407: the trailing separator
SigFinish(st) ==
    IF st.has_positional_only /\ ~st.positional_only_added
    THEN Append(st.params, <<"/">>)
    ELSE st.params

\* the list params that line 411 joins
SignatureParams(parameters) == SigFinish(SigLoop(parameters, SigStart))

\* a parameter is one of: the five kinds without a default, or a
\* positional-or-keyword parameter with the default 1
ParamShapes ==
    [kind : ParamKinds, default : {<<>>}] \cup
    [kind : {"positional_or_keyword"}, default : {<<"1">>}]

ParamLists ==
    UNION {{[i \in 1..k |-> [name |-> <<Letters[i]>>, kind |-> sh[i].kind,
                             annotation |-> <<>>, default |-> sh[i].default]] :
              sh \in [1..k -> ParamShapes]} : k \in 0..MaxParams}

InitSig ==
    /\ PipeIdle
    /\ cfg = DefaultCfg
    /\ flt = IdleFlt
    /\ \E ps \in ParamLists : sig = [done |-> FALSE, parameters |-> ps, params |-> <<>>]
    /\ call = IdleCall

SignatureCall ==
    /\ pc = "idle"
    /\ ~sig.done
    /\ sig' = [sig EXCEPT !.done = TRUE, !.params = SignatureParams(sig.parameters)]
    /\ UNCHANGED <<pipeVars, flt, call>>

NextSig == SignatureCall

SpecSig == InitSig /\ [][NextSig]_vars

(***************************************************************************)
(* _get_signature as a whole: the guards before the loop, the joined text, *)
(* the return annotation and the final validation                          *)
(***************************************************************************)
MaxReprParams == 2

\* sep.join(parts)
RECURSIVE Join(_, _)
Join(parts, sep) ==
    IF parts = <<>> THEN <<>>
    ELSE IF Len(parts) = 1 THEN parts[1]
    ELSE parts[1] \o sep \o Join(Tail(parts), sep)

\* repr(parameters), line 337.  The text comes from the analyzer library:
\* either the default object representation, which names no field, or a
\* representation that lists each parameter with its annotation and default
RECURSIVE FieldsRepr(_)
FieldsRepr(parameters) ==
    IF parameters = <<>> THEN <<>>
    ELSE <<"(">> \o Head(parameters).name \o <<",">> \o Head(parameters).annotation
                 \o <<",">> \o Head(parameters).default \o <<")">>
                 \o FieldsRepr(Tail(parameters))

ParamsRepr(obj) ==
    IF obj.repr_lists_fields
    THEN <<"P", "(">> \o FieldsRepr(obj.parameters) \o <<")">>
    ELSE <<"<", "P", " ", "o", "b", "j", "e", "c", "t", ">">>

\* _get_signature, lines 326-434
GetSignature(obj) ==
    IF IsInvalidRepr(ParamsRepr(obj)) THEN <<>>
    ELSE LET params == SignatureParams(obj.parameters)
             params_str == Join(params, <<",", "\n", " ", " ", " ", " ">>)
             bare == IF params # <<>>
                     THEN obj.name \o <<"(", "\n", " ", " ", " ", " ">> \o params_str
                                   \o <<",", "\n", ")">>
                     ELSE obj.name \o <<"(", ")">>
             signature == IF obj.returns # <<>> /\ ~IsInvalidRepr(obj.returns)
                          THEN bare \o <<" ", "-", ">", " ">> \o obj.returns
                          ELSE bare
         IN IF IsInvalidRepr(signature) THEN <<>> ELSE signature

BoundMethodText ==
    <<"<", "b", "o", "u", "n", "d", " ", "m", "e", "t", "h", "o", "d", " ", "F", ".", "b", ">">>

FunctionText == <<" ", "<", "f", "u", "n", "c", "t", "i", "o", "n", " ", "g", ">">>

ClassText == <<"<", "c", "l", "a", "s", "s", " ", "'", "T", "'", ">">>

AnnotationTexts == {<<>>, <<"T">>, BoundMethodText}

DefaultTexts == {<<>>, <<"1">>, FunctionText}

ReturnTexts == {<<>>, <<"T">>, ClassText}

ReprParamLists ==
    UNION {{[i \in 1..k |-> [name |-> <<Letters[i]>>, kind |-> sh[i].kind,
                             annotation |-> sh[i].annotation, default |-> sh[i].default]] :
              sh \in [1..k -> [kind : {"positional_or_keyword", "var_keyword"},
                               annotation : AnnotationTexts,
                               default : DefaultTexts]]} : k \in 0..MaxReprParams}

InitRepr ==
    /\ PipeIdle
    /\ cfg = DefaultCfg
    /\ flt = IdleFlt
    /\ \E ps \in ReprParamLists, r \in ReturnTexts, lf \in BOOLEAN :
          sig = [done |-> FALSE,
                 obj |-> [name |-> <<"f">>, parameters |-> ps, returns |-> r,
                          repr_lists_fields |-> lf],
                 signature |-> <<>>]
    /\ call = IdleCall

GetSignatureCall ==
    /\ pc = "idle"
    /\ ~sig.done
    /\ sig' = [sig EXCEPT !.done = TRUE, !.signature = GetSignature(sig.obj)]
    /\ UNCHANGED <<pipeVars, flt, call>>

NextRepr == GetSignatureCall

SpecRepr == InitRepr /\ [][NextRepr]_vars

(***************************************************************************)
(* _extract_type_refs.  A type expression is a record                      *)
(*   [type, name, canonical, scope, args, raises]:                         *)
(*   type      the class of the expression object: ExprName, ExprBinOp,    *)
(*             ExprSubscript, ExprTuple, str, or a class the code ignores  *)
(*   name      the name of an ExprName, the text of a str                  *)
(*   canonical the segments of canonical_path (<<>>: no canonical path)    *)
(*   scope     the segments of the path of the member of that name found   *)
(*             in an enclosing scope (<<>>: none found)                    *)
(*   args      the operands: left and right, left and slice, the elements  *)
(*   raises    reading the expression raises: the name of an ExprName,     *)
(*             the slice of an ExprSubscript                               *)
(***************************************************************************)
MaxAnnotations == 2

\* lines 450-458
builtins ==
    {"str", "int", "float", "bool", "None", "bytes", "object",
     "list", "dict", "set", "tuple", "type", "Any", "Optional",
     "Union", "List", "Dict", "Set", "Tuple", "Type", "Callable",
     "Iterable", "Iterator", "Generator", "Sequence", "Mapping",
     "Literal", "TypeVar", "Generic", "Protocol", "ClassVar",
     "Awaitable", "Coroutine", "AsyncIterator", "AsyncGenerator",
     "Self", "NoReturn", "Never", "Final", "Annotated"}

\* the texts of the string annotations of the model, and str.isidentifier
\* on them
StrTexts == {"Foo", "int", "List[Bar]"}

IsIdentifier(text) == text \in {"Foo", "int"}

ExprName(name, canonical, scope) ==
    [type |-> "ExprName", name |-> name, canonical |-> canonical, scope |-> scope,
     args |-> <<>>, raises |-> FALSE]

ExprStr(text) ==
    [type |-> "str", name |-> text, canonical |-> <<>>, scope |-> <<>>,
     args |-> <<>>, raises |-> FALSE]

ExprOf(type, args, raises) ==
    [type |-> type, name |-> "", canonical |-> <<>>, scope |-> <<>>,
     args |-> args, raises |-> raises]

RefsStart == [type_refs |-> <<>>, seen_names |-> {}, raised |-> FALSE]

\* lines 468-503: an ExprName
VisitNameNoSeen(expr, st) ==
    IF expr.raises THEN [st EXCEPT !.raised = TRUE]
    ELSE IF expr.name # "" /\ expr.name \notin builtins
    THEN LET qualified_name ==
                 IF Len(expr.canonical) >= 2 THEN expr.canonical ELSE expr.scope
         IN [st EXCEPT !.seen_names = @ \cup {expr.name},
                       !.type_refs = Append(@, [name |-> expr.name,
                                                qualifiedName |-> qualified_name])]
    ELSE st

VisitName(expr, st) ==
    IF expr.raises THEN [st EXCEPT !.raised = TRUE]
    ELSE IF expr.name # "" /\ expr.name \notin builtins /\ expr.name \notin st.seen_names
    THEN LET qualified_name ==
                 IF Len(expr.canonical) >= 2 THEN expr.canonical ELSE expr.scope
         IN [st EXCEPT !.seen_names = @ \cup {expr.name},
                       !.type_refs = Append(@, [name |-> expr.name,
                                                qualifiedName |-> qualified_name])]
    ELSE st

\* lines 533-539: a string annotation
VisitStr(expr, st) ==
    IF IsIdentifier(expr.name) /\ expr.name \notin builtins /\ expr.name \notin st.seen_names
    THEN [st EXCEPT !.seen_names = @ \cup {expr.name},
                    !.type_refs = Append(@, [name |-> expr.name, qualifiedName |-> <<>>])]
    ELSE st

\* extract_type_names_from_expr (lines 460-539) on each of exprs in turn; an
\* exception ends the whole traversal
RECURSIVE ExtractTypeNames(_, _)
ExtractTypeNames(exprs, st) ==
    IF exprs = <<>> \/ st.raised THEN st
    ELSE LET expr == Head(exprs)
             after ==
               CASE expr.type = "ExprName" -> VisitName(expr, st)
                 [] expr.type = "ExprBinOp" -> ExtractTypeNames(expr.args, st)
                 [] expr.type = "ExprSubscript" ->
                      LET left == ExtractTypeNames(<<expr.args[1]>>, st)
                      IN IF left.raised THEN left
                         ELSE IF expr.raises THEN [left EXCEPT !.raised = TRUE]
                         ELSE ExtractTypeNames(<<expr.args[2]>>, left)
                 [] expr.type = "ExprTuple" -> ExtractTypeNames(expr.args, st)
                 [] expr.type = "str" -> VisitStr(expr, st)
                 [] OTHER -> st
         IN ExtractTypeNames(Tail(exprs), after)

\* lines 541-560: parameters, then the return annotation, then the bases;
\* the list built so far is returned whether or not an exception was caught
ExtractTypeRefs(obj) ==
    ExtractTypeNames(obj.annotations \o obj.returns \o obj.bases, RefsStart).type_refs

\* transformer.py lines 480-489: the typeRefs of the emitted record
TypeRefsOf(type_refs) ==
    [i \in 1..Len(type_refs) |->
        IF type_refs[i].qualifiedName # <<>>
        THEN [name |-> type_refs[i].name, qualifiedName |-> type_refs[i].qualifiedName]
        ELSE [name |-> type_refs[i].name]]

Foo == ExprName("Foo", <<"pkg", "Foo">>, <<>>)

Bar == ExprName("Bar", <<"Bar">>, <<"pkg", "m", "Bar">>)

TypeExprs ==
    {Foo, Bar, ExprName("int", <<>>, <<>>), ExprName("Foo", <<>>, <<>>),
     [Foo EXCEPT !.raises = TRUE]}
    \cup {ExprStr(t) : t \in StrTexts}
    \cup {ExprOf("ExprAttribute", <<Foo>>, FALSE)}
    \cup {ExprOf("ExprBinOp", <<a, b>>, FALSE) : a \in {Foo, Bar}, b \in {Foo, ExprName("None", <<>>, <<>>)}}
    \cup {ExprOf("ExprSubscript",
                 <<ExprName("Union", <<"typing", "Union">>, <<>>), ExprOf("ExprTuple", <<Foo, a, Bar>>, FALSE)>>,
                 FALSE) : a \in {Foo, Bar}}
    \cup {ExprOf("ExprSubscript", <<a, Bar>>, r) : a \in {Foo, ExprName("List", <<>>, <<>>)}, r \in BOOLEAN}

InitRefs ==
    /\ PipeIdle
    /\ cfg = DefaultCfg
    /\ flt = IdleFlt
    /\ sig = IdleSig
    /\ \E k \in 0..MaxAnnotations :
         \E anns \in [1..k -> TypeExprs] :
           \E ret \in {<<>>} \cup {<<e>> : e \in {Foo, Bar, [Foo EXCEPT !.raises = TRUE]}} :
             \E bases \in {<<>>} \cup {<<e>> : e \in {Bar, ExprStr("Foo")}} :
               call = [done |-> FALSE,
                      obj |-> [annotations |-> anns, returns |-> ret, bases |-> bases],
                      type_refs |-> <<>>, typeRefs |-> <<>>]

TypeRefsCall ==
    /\ pc = "idle"
    /\ ~call.done
    /\ LET type_refs == ExtractTypeRefs(call.obj)
       IN call' = [call EXCEPT !.done = TRUE, !.type_refs = type_refs,
                             !.typeRefs = TypeRefsOf(type_refs)]
    /\ UNCHANGED <<pipeVars, flt, sig>>

NextRefs == TypeRefsCall

SpecRefs == InitRefs /\ [][NextRefs]_vars

(***************************************************************************)
(* The examples of a symbol (transformer.py, _transform_symbol lines       *)
(* 385-416, clean_example_content, dedent_code).  A text is the sequence   *)
(* of its lines, a line is [indent, body]: the number of leading blanks    *)
(* and what follows them; <<>> is the empty string.                        *)
(***************************************************************************)
MaxExamples == 2

Line(indent, body) == [indent |-> indent, body |-> body]

\* line.strip() is empty
IsBlank(line) == line.body = ""

\* text.strip(): blank lines at both ends and the indentation of the first
\* line go
RECURSIVE StripText(_)
StripText(text) ==
    IF text = <<>> THEN text
    ELSE IF IsBlank(Head(text)) THEN StripText(Tail(text))
    ELSE IF IsBlank(text[Len(text)]) THEN StripText(SubSeq(text, 1, Len(text) - 1))
    ELSE <<Line(0, Head(text).body)>> \o Tail(text)

\* a line the pattern ^[\?\!]{3}\+?\s*\w+...\s*$ matches from its start
IsAdmonition(line) == line.indent = 0 /\ line.body = "!!! note"

\* the line holds a code fence; [fence] stands for the three backquotes
IsFence(line) == line.body \in {"[fence]python", "[fence]"}

\* re.sub of the admonition openers (lines 247-252): the opener and the
\* blank lines after it, which the trailing \s* of the pattern takes, leave
\* one empty line
RECURSIVE DropBlankLines(_)
DropBlankLines(text) ==
    IF text # <<>> /\ IsBlank(Head(text)) THEN DropBlankLines(Tail(text)) ELSE text

RECURSIVE RemoveAdmonitions(_)
RemoveAdmonitions(text) ==
    IF text = <<>> THEN text
    ELSE IF IsAdmonition(Head(text))
    THEN <<Line(0, "")>> \o RemoveAdmonitions(DropBlankLines(Tail(text)))
    ELSE <<Head(text)>> \o RemoveAdmonitions(Tail(text))

\* clean_example_content
CleanExampleContent(content) ==
    IF content = <<>> THEN content
    ELSE LET text == RemoveAdmonitions(content)
             fences == {i \in 1..Len(text) : IsFence(text[i])}
         IN IF Cardinality(fences) >= 2
            THEN LET open == CHOOSE i \in fences : \A j \in fences : i <= j
                     close == CHOOSE i \in fences \ {open} : \A j \in fences \ {open} : i <= j
                 IN StripText(SubSeq(text, open + 1, close - 1))
            ELSE StripText(text)

\* the indentation the non-blank lines of text share (-1: no such line)
MinIndent(text) ==
    LET full == {i \in 1..Len(text) : ~IsBlank(text[i])}
    IN IF full = {} THEN -1
       ELSE LET i == CHOOSE i \in full : \A j \in full : text[i].indent <= text[j].indent
            IN text[i].indent

Dedent(text, skip, by) ==
    [i \in 1..Len(text) |->
        IF i \in skip \/ IsBlank(text[i]) THEN text[i]
        ELSE Line(text[i].indent - by, text[i].body)]

\* dedent_code
DedentCode(code) ==
    IF code = <<>> THEN code
    ELSE IF Len(code) <= 1 THEN StripText(code)
    ELSE LET full == {i \in 1..Len(code) : ~IsBlank(code[i])}
             first == IF full = {} THEN 0 ELSE CHOOSE i \in full : \A j \in full : i <= j
             first_line_indent == IF first = 0 THEN 0 ELSE code[first].indent
             rest == [i \in 1..Len(code) |-> IF i <= first THEN Line(0, "") ELSE code[i]]
             min_rest == MinIndent(rest)
             min_indent == MinIndent(code)
         IN IF first_line_indent = 0 /\ min_rest > 0
            THEN Dedent(code, 1..first, min_rest)
            ELSE IF min_indent <= 0 THEN code
            ELSE Dedent(code, {}, min_indent)

\* an item of the value of an examples section: a dict with a description,
\* or another object, whose str() is cleaned
ExampleCode(ex) == DedentCode(CleanExampleContent(ex.text))

\* mutant: an example is added whether or not it was seen
ExampleStepNoSeen(st, ex) ==
    LET cleaned_code == ExampleCode(ex)
    IN IF cleaned_code # <<>>
       THEN [examples |-> Append(st.examples, [code |-> cleaned_code, language |-> "python"]),
             seen_examples |-> st.seen_examples \cup {cleaned_code}]
       ELSE st

\* lines 395-411: one item of one examples section
ExampleStep(st, ex) ==
    LET cleaned_code == ExampleCode(ex)
    IN IF cleaned_code # <<>> /\ cleaned_code \notin st.seen_examples
       THEN [examples |-> Append(st.examples, [code |-> cleaned_code, language |-> "python"]),
             seen_examples |-> st.seen_examples \cup {cleaned_code}]
       ELSE st

RECURSIVE ExamplesOfValue(_, _)
ExamplesOfValue(value, st) ==
    IF value = <<>> THEN st
    ELSE ExamplesOfValue(Tail(value), ExampleStep(st, Head(value)))

\* lines 386-416: the examples of all the examples sections whose value is
\* a list
RECURSIVE ExamplesLoop(_, _)
ExamplesLoop(sections, st) ==
    IF sections = <<>> THEN st
    ELSE LET section == Head(sections)
         IN ExamplesLoop(Tail(sections),
                         IF section.kind = "examples" /\ section.is_list
                         THEN ExamplesOfValue(section.value, st)
                         ELSE st)

Examples(sections) ==
    ExamplesLoop(sections, [examples |-> <<>>, seen_examples |-> {}]).examples

ExampleTexts ==
    { <<>>,
      <<Line(0, "a")>>,
      <<Line(2, "a")>>,
      <<Line(0, "a"), Line(2, "b")>>,
      <<Line(4, "a"), Line(6, "b")>>,
      <<Line(0, "[fence]python"), Line(0, "a"), Line(2, "b"), Line(0, "[fence]")>>,
      <<Line(0, "!!! note")>>,
      <<Line(0, "!!! note"), Line(0, ""), Line(2, "[fence]"), Line(2, "a"), Line(2, "[fence]")>> }

ExampleItems ==
    {[is_dict |-> TRUE, text |-> t] : t \in ExampleTexts}
    \cup {[is_dict |-> FALSE, text |-> <<Line(0, "a"), Line(0, ""), Line(0, "b")>>]}

ExampleValues == UNION {[1..k -> ExampleItems] : k \in 0..MaxExamples}

InitExamples ==
    /\ PipeIdle
    /\ cfg = DefaultCfg
    /\ flt = IdleFlt
    /\ sig = IdleSig
    /\ \E first \in ExampleValues, is_list \in BOOLEAN,
          between \in {<<>>, <<[kind |-> "text", is_list |-> TRUE, value |-> <<>>]>>},
          last \in [1..1 -> ExampleItems] \cup {<<>>} :
          /\ is_list \/ first = <<>>
          /\ call = [done |-> FALSE,
                     sections |-> <<[kind |-> "examples", is_list |-> is_list, value |-> first]>>
                                  \o between
                                  \o (IF last = <<>> THEN <<>>
                                      ELSE <<[kind |-> "examples", is_list |-> TRUE, value |-> last]>>),
                     examples |-> <<>>]

ExamplesCall ==
    /\ pc = "idle"
    /\ ~call.done
    /\ call' = [call EXCEPT !.done = TRUE, !.examples = Examples(call.sections)]
    /\ UNCHANGED <<pipeVars, flt, sig>>

NextExamples == ExamplesCall

SpecExamples == InitExamples /\ [][NextExamples]_vars

(***************************************************************************)
(* _generate_symbol_id on two symbols                                      *)
(***************************************************************************)
MaxPathLen == 3

\* qualified paths: names of letters and underscores joined by dots
IdPaths ==
    {p \in UNION {[1..k -> {"a", "_", "."}] : k \in 1..MaxPathLen} :
        /\ p[1] # "." /\ p[Len(p)] # "."
        /\ \A i \in 1..(Len(p) - 1) : ~(p[i] = "." /\ p[i + 1] = ".")}
    \cup {<<"a", ".", "b", "_", "c">>, <<"a", "_", "b", ".", "c">>}

IdKinds == {"class", "function", "method"}

InitIds ==
    /\ PipeIdle
    /\ cfg = DefaultCfg
    /\ flt = IdleFlt
    /\ sig = IdleSig
    /\ \E k1 \in IdKinds, k2 \in IdKinds, p1 \in IdPaths, p2 \in IdPaths :
          call = [done |-> FALSE, kind1 |-> k1, path1 |-> p1, kind2 |-> k2, path2 |-> p2,
                  id1 |-> <<>>, id2 |-> <<>>]

IdsCall ==
    /\ pc = "idle"
    /\ ~call.done
    /\ call' = [call EXCEPT !.done = TRUE,
                            !.id1 = GenerateSymbolId(call.kind1, call.path1),
                            !.id2 = GenerateSymbolId(call.kind2, call.path2)]
    /\ UNCHANGED <<pipeVars, flt, sig>>

NextIds == IdsCall

SpecIds == InitIds /\ [][NextIds]_vars

(***************************************************************************)
(* IRTransformer._normalize_source_path.  A path is the sequence of its    *)
(* segments, what str.split('/') gives: "/tmp/x" is <<"", "tmp", "x">>;    *)
(* <<>> is the empty string.  The result is [none, path]: none is set     *)
(* before the call has returned.                                           *)
(***************************************************************************)
MaxSegments == 5

Returned(path) == [none |-> FALSE, path |-> path]

\* the result of a call that has not returned yet
NotReturned == [none |-> TRUE, path |-> <<>>]

\* the segments after which "/extracted/(libs/[^/]+/.*|[^/].*)$" matches:
\* an "extracted" segment between two slashes, followed by a character
\* that is no slash
ExtractedAt(file_path) ==
    {i \in 2..(Len(file_path) - 1) : file_path[i] = "extracted" /\ file_path[i + 1] # ""}

\* "(?:^|/)tmp/.*?/extracted/(libs/[^/]+/.*|[^/].*)$"
TmpExtractedAt(file_path) ==
    {i \in ExtractedAt(file_path) : \E j \in 1..(i - 2) : file_path[j] = "tmp"}

\* the segment ends with "libs"
EndsWithLibs(segment) == segment \in {"libs", "mylibs"}

\* "(libs/[^/]+/.*)$"
LibsAt(file_path) ==
    {i \in 1..(Len(file_path) - 2) : EndsWithLibs(file_path[i]) /\ file_path[i + 1] # ""}

Leftmost(S) == CHOOSE i \in S : \A j \in S : i <= j

\* mutant: the search takes the last marker of the path
NormalizeSourcePathLastMarker(file_path) ==
    IF file_path = <<>> THEN Returned(<<>>)
    ELSE IF ExtractedAt(file_path) # {}
    THEN LET i == CHOOSE i \in ExtractedAt(file_path) : \A j \in ExtractedAt(file_path) : j <= i
         IN Returned(SubSeq(file_path, i + 1, Len(file_path)))
    ELSE IF ~(Len(file_path) >= 2 /\ file_path[1] = "") /\ file_path[1] # ".."
    THEN Returned(file_path)
    ELSE IF LibsAt(file_path) # {}
    THEN Returned(<<"libs">> \o SubSeq(file_path, Leftmost(LibsAt(file_path)) + 1, Len(file_path)))
    ELSE IF Len(file_path) >= 2
    THEN Returned(SubSeq(file_path, Len(file_path) - 1, Len(file_path)))
    \* line 647
    ELSE Returned(IF Len(file_path) >= 2 THEN <<file_path[Len(file_path)]>> ELSE file_path)

\* mutant: the relative paths are recognised before the marker is searched
NormalizeSourcePathRelativeFirst(file_path) ==
    IF file_path = <<>> THEN Returned(<<>>)
    ELSE IF ~(Len(file_path) >= 2 /\ file_path[1] = "") /\ file_path[1] # ".."
    THEN Returned(file_path)
    ELSE IF ExtractedAt(file_path) # {}
    THEN Returned(SubSeq(file_path, Leftmost(ExtractedAt(file_path)) + 1, Len(file_path)))
    ELSE IF LibsAt(file_path) # {}
    THEN Returned(<<"libs">> \o SubSeq(file_path, Leftmost(LibsAt(file_path)) + 1, Len(file_path)))
    ELSE IF Len(file_path) >= 2
    THEN Returned(SubSeq(file_path, Len(file_path) - 1, Len(file_path)))
    \* line 647
    ELSE Returned(IF Len(file_path) >= 2 THEN <<file_path[Len(file_path)]>> ELSE file_path)

\* _normalize_source_path, lines 619-647
NormalizeSourcePath(file_path) ==
    IF file_path = <<>> THEN Returned(<<>>)
    \* lines 624-626
    ELSE IF ExtractedAt(file_path) # {}
    THEN Returned(SubSeq(file_path, Leftmost(ExtractedAt(file_path)) + 1, Len(file_path)))
    \* lines 629-631
    ELSE IF TmpExtractedAt(file_path) # {}
    THEN Returned(SubSeq(file_path, Leftmost(TmpExtractedAt(file_path)) + 1, Len(file_path)))
    \* lines 634-635
    ELSE IF ~(Len(file_path) >= 2 /\ file_path[1] = "") /\ file_path[1] # ".."
    THEN Returned(file_path)
    \* lines 638-640
    ELSE IF LibsAt(file_path) # {}
    THEN Returned(<<"libs">> \o SubSeq(file_path, Leftmost(LibsAt(file_path)) + 1, Len(file_path)))
    \* lines 643-645
    ELSE IF Len(file_path) >= 2
    THEN Returned(SubSeq(file_path, Len(file_path) - 1, Len(file_path)))
    \* line 647
    ELSE Returned(IF Len(file_path) >= 2 THEN <<file_path[Len(file_path)]>> ELSE file_path)

Segments == {"", "..", "extracted", "libs", "mylibs", "p"}

\* the part of the example path after the marker
PackagePath == <<"libs", "mypkg", "sub", "file.py">>

ExamplePath == <<"", "tmp", "cache123", "extracted">> \o PackagePath

\* the strings of the model: the paths of up to MaxSegments segments, and
\* the example's package path behind the marker and a prefix
FilePaths ==
    LET short == UNION {[1..k -> Segments] : k \in 0..MaxSegments} \ {<<"">>}
    IN short
       \cup {ExamplePath}
       \cup {prefix \o <<"extracted">> \o PackagePath :
               prefix \in UNION {[1..k -> Segments \cup {"tmp"}] : k \in 1..(MaxSegments - 2)}}

InitPaths ==
    /\ PipeIdle
    /\ cfg = DefaultCfg
    /\ flt = IdleFlt
    /\ sig = IdleSig
    /\ \E file_path \in FilePaths :
          call = [done |-> FALSE, file_path |-> file_path, result |-> NotReturned]

NormalizeCall ==
    /\ pc = "idle"
    /\ ~call.done
    /\ call' = [call EXCEPT !.done = TRUE, !.result = NormalizeSourcePath(call.file_path)]
    /\ UNCHANGED <<pipeVars, flt, sig>>

NextPaths == NormalizeCall

SpecPaths == InitPaths /\ [][NextPaths]_vars

(***************************************************************************)
(* The documented parameters: PythonExtractor._section_to_dict, then       *)
(* IRTransformer._extract_params.  An attribute or a dict value that may   *)
(* be None is a sequence: <<>> for None, <<v>> for the value v.  The keys  *)
(* of a dict are the fields of the record together with its set keys.      *)
(***************************************************************************)
MaxDocParams == 2

\* _section_to_dict, lines 621-629: the dict of one item of a list value
ItemToDict(item) ==
    [keys |-> {"name", "annotation", "description"}
              \cup (IF item.default # <<>> /\ item.default # <<"">> THEN {"default"} ELSE {}),
     name |-> item.name,
     annotation |-> item.annotation,
     description |-> item.description,
     default |-> item.default]

\* _section_to_dict on a section whose value is a list
SectionToDict(section) ==
    [kind |-> section.kind,
     value |-> [i \in 1..Len(section.value) |-> ItemToDict(section.value[i])]]

\* item.get(key, default): the value under the key, the default without it
DictGet(item, key, value, default) == IF key \in item.keys THEN value ELSE default

\* _extract_params, lines 564-573: the record of one item
ParamOf(item) ==
    [name |-> DictGet(item, "name", item.name, ""),
     type |-> DictGet(item, "annotation", item.annotation, <<"Any">>),
     required |-> DictGet(item, "default", item.default, <<>>) = <<>>]

\* _extract_params
RECURSIVE ExtractParams(_)
ExtractParams(sections) ==
    IF sections = <<>> THEN <<>>
    ELSE (IF Head(sections).kind \in {"parameters", "args", "arguments"}
          THEN [i \in 1..Len(Head(sections).value) |-> ParamOf(Head(sections).value[i])]
          ELSE <<>>)
         \o ExtractParams(Tail(sections))

DocItems ==
    [name : {"x"}, annotation : {<<>>, <<"int">>}, description : {"", "d"},
     default : {<<>>, <<"0">>}]

DocSectionKinds == {"parameters", "args", "arguments", "other_parameters"}

InitParams ==
    /\ PipeIdle
    /\ cfg = DefaultCfg
    /\ flt = IdleFlt
    /\ sig = IdleSig
    /\ \E kind \in DocSectionKinds :
         \E k \in 0..MaxDocParams :
           \E value \in [1..k -> DocItems] :
              call = [done |-> FALSE, section |-> [kind |-> kind, value |-> value],
                      params |-> <<>>]

ParamsCall ==
    /\ pc = "idle"
    /\ ~call.done
    /\ call' = [call EXCEPT !.done = TRUE,
                            !.params = ExtractParams(<<SectionToDict(call.section)>>)]
    /\ UNCHANGED <<pipeVars, flt, sig>>

NextParams == ParamsCall

SpecParams == InitParams /\ [][NextParams]_vars

(***************************************************************************)
(* The documentation of a symbol and its stability tag: _transform_symbol  *)
(* lines 357-383 and 418-424, clean_mkdocs_admonitions on texts of one     *)
(* line, _infer_stability.  Texts are sequences of characters.             *)
(***************************************************************************)
MaxTextSections == 2

UpperCase ==
    <<"A", "B", "C", "D", "E", "F", "G", "H", "I", "J", "K", "L", "M",
      "N", "O", "P", "Q", "R", "S", "T", "U", "V", "W", "X", "Y", "Z">>

LowerCase ==
    <<"a", "b", "c", "d", "e", "f", "g", "h", "i", "j", "k", "l", "m",
      "n", "o", "p", "q", "r", "s", "t", "u", "v", "w", "x", "y", "z">>

\* text.lower()
Lower(text) ==
    [i \in 1..Len(text) |->
        IF text[i] \in Range(UpperCase) THEN LowerCase[IndexOf(UpperCase, text[i])]
        ELSE text[i]]

\* clean_mkdocs_admonitions on a text of one line: dedent_docstring returns
\* text.strip() (line 42), no run of newlines to squeeze, strip() again
CleanMkdocsAdmonitions(text) == IF text = <<>> THEN text ELSE Strip(Strip(text))

\* lines 372-383: the texts of the text sections, but the empty ones and
\* those that repeat the summary
RECURSIVE DescriptionParts(_, _)
DescriptionParts(sections, summary) ==
    IF sections = <<>> THEN <<>>
    ELSE LET section == Head(sections)
             text == CleanMkdocsAdmonitions(section.value)
         IN (IF section.kind = "text" /\ section.value # <<>>
                /\ Strip(text) # <<>> /\ Strip(text) # Strip(summary)
             THEN <<text>> ELSE <<>>)
            \o DescriptionParts(Tail(sections), summary)

\* lines 419-424: the deprecated entry of docs, <<>> without one
RECURSIVE DeprecatedOf(_, _)
DeprecatedOf(sections, found) ==
    IF sections = <<>> THEN found
    ELSE DeprecatedOf(Tail(sections),
                      IF Head(sections).kind = "deprecated"
                      THEN <<[isDeprecated |-> TRUE, message |-> Head(sections).value]>>
                      ELSE found)

\* lines 357-424: the docs object; a key that is not set is <<>>
DocsOf(docstring) ==
    LET summary == CleanMkdocsAdmonitions(docstring.summary)
        description_parts == DescriptionParts(docstring.sections, summary)
    IN [summary |-> summary,
        description |-> IF description_parts # <<>>
                        THEN <<Join(description_parts, <<"\n", "\n">>)>> ELSE <<>>,
        deprecated |-> DeprecatedOf(docstring.sections, <<>>)]

Experimental == <<"e", "x", "p", "e", "r", "i", "m", "e", "n", "t", "a", "l">>

Beta == <<"b", "e", "t", "a">>

\* mutant: beta is looked for before experimental
InferStabilityBetaFirst(docs) ==
    IF docs.deprecated # <<>> THEN "deprecated"
    ELSE LET summary == Lower(docs.summary)
             description == Lower(IF docs.description # <<>> THEN docs.description[1] ELSE <<>>)
             text == summary \o <<" ">> \o description
         IN IF Contains(text, Beta) THEN "beta"
            ELSE IF Contains(text, Experimental) THEN "experimental"
            ELSE "stable"

\* _infer_stability
InferStability(docs) ==
    IF docs.deprecated # <<>> THEN "deprecated"
    ELSE LET summary == Lower(docs.summary)
             description == Lower(IF docs.description # <<>> THEN docs.description[1] ELSE <<>>)
             text == summary \o <<" ">> \o description
         IN IF Contains(text, Experimental) THEN "experimental"
            ELSE IF Contains(text, Beta) THEN "beta"
            ELSE "stable"

DocTexts ==
    { <<>>,
      <<"x">>,
      <<" ", "E", "x", "p", "e", "r", "i", "m", "e", "n", "t", "a", "l", " ", "A", "P", "I", " ">>,
      <<"B", "E", "T", "A">>,
      <<"a", "l", "p", "h", "a", "b", "e", "t", "a">>,
      <<"e", "x", "p", "e", "r", "i">>,
      <<"m", "e", "n", "t", "a", "l">>,
      <<"b", "e", "t", "a", " ", "a", "n", "d", " ", "e", "x", "p", "e", "r", "i", "m", "e", "n", "t", "a", "l">> }

DocSections ==
    UNION {[1..k -> [kind : {"text"}, value : DocTexts]] : k \in 0..MaxTextSections}

InitDocs ==
    /\ PipeIdle
    /\ cfg = DefaultCfg
    /\ flt = IdleFlt
    /\ sig = IdleSig
    /\ \E summary \in DocTexts, sections \in DocSections,
          deprecated \in {<<>>, <<[kind |-> "deprecated", value |-> <<"o", "l", "d">>]>>} :
          call = [done |-> FALSE,
                  docstring |-> [summary |-> summary, sections |-> sections \o deprecated],
                  docs |-> DocsOf([summary |-> <<>>, sections |-> <<>>]),
                  stability |-> ""]

DocsCall ==
    /\ pc = "idle"
    /\ ~call.done
    /\ LET docs == DocsOf(call.docstring)
       IN call' = [call EXCEPT !.done = TRUE, !.docs = docs,
                               !.stability = InferStability(docs)]
    /\ UNCHANGED <<pipeVars, flt, sig>>

NextDocs == DocsCall

SpecDocs == InitDocs /\ [][NextDocs]_vars

(***************************************************************************)
(* The run over objects of every kind: griffe's Kind has the members       *)
(* module, class, function, attribute, alias and type alias; "none" is an  *)
(* object without the attribute kind (_get_kind, line 263).                *)
(***************************************************************************)
GriffeKinds == {"module", "class", "function", "attribute", "type alias", "none"}

\* a tree whose objects have the kinds given
KindGraph(par, kinds, aliasNode) ==
    [MkGraph(par, NoNode, "public", NoExtra, aliasNode, NoNode, "none") EXCEPT !.kind = kinds]

\* packages are modules; only modules and classes have members; a module
\* lies in a module; the kind alias is the kind of an unresolved alias
InitKinds ==
    /\ \E par \in ParentMaps, a \in {NoNode} \cup (Nodes \ {Root}) :
         \E kinds \in [Nodes -> GriffeKinds \cup {"alias"}] :
            /\ kinds[Root] = "module"
            /\ \A n \in Nodes \ {Root} :
                  /\ kinds[n] = "alias" => n = a
                  /\ TreeChildren(par, n) # <<>> => kinds[n] \in {"module", "class"}
                  /\ kinds[n] = "module" => kinds[par[n]] = "module"
            /\ graph = KindGraph(par, kinds, a)
    /\ cfg = DefaultCfg
    /\ PipeStart
    /\ flt = IdleFlt
    /\ sig = IdleSig
    /\ call = IdleCall

SpecKinds == InitKinds /\ [][Next]_vars

(***************************************************************************)
(* The member list of a class given with its bases: _get_member_info,      *)
(* _get_bases, _is_typeddict, _synthesize_typeddict_init.  A class is      *)
(* [bases, members]; bases are the texts str(base); a member is            *)
(* [name, kind, annotation, target]: kind is what _get_kind gives for it,  *)
(* annotation the text str(member.annotation) (<<>>: no annotation),       *)
(* target the target_path of an alias (<<>>: the member is no alias).  A   *)
(* key that an entry of the list does not have is <<>>.                    *)
(***************************************************************************)
MaxMembers == 3

TypedDictText == <<"T", "y", "p", "e", "d", "D", "i", "c", "t">>

\* _get_bases
GetBases(obj) == obj.bases

\* _is_typeddict
IsTypedDict(obj) ==
    \E i \in 1..Len(GetBases(obj)) : Contains(GetBases(obj)[i], TypedDictText)

\* mutant: the private attributes are parameters too
RECURSIVE TypedDictParamsWithPrivate(_)
TypedDictParamsWithPrivate(members) ==
    IF members = <<>> THEN <<>>
    ELSE LET member == Head(members)
             type_annotation ==
                 IF member.annotation # <<>> /\ ~IsInvalidRepr(member.annotation)
                 THEN member.annotation ELSE <<>>
         IN (IF member.kind # "attribute" THEN <<>>
             ELSE <<[name |-> member.name, type |-> type_annotation]>>)
            \o TypedDictParamsWithPrivate(Tail(members))

\* _synthesize_typeddict_init, lines 712-733: params
RECURSIVE TypedDictParams(_)
TypedDictParams(members) ==
    IF members = <<>> THEN <<>>
    ELSE LET member == Head(members)
             type_annotation ==
                 IF member.annotation # <<>> /\ ~IsInvalidRepr(member.annotation)
                 THEN member.annotation ELSE <<>>
         IN (IF StartsWith(member.name, <<"_">>) \/ member.kind # "attribute" THEN <<>>
             ELSE <<[name |-> member.name, type |-> type_annotation]>>)
            \o TypedDictParams(Tail(members))

\* lines 739-744: param_strs
ParamStrs(params) ==
    [i \in 1..Len(params) |->
        IF params[i].type # <<>> THEN params[i].name \o <<":", " ">> \o params[i].type
        ELSE params[i].name]

InitName == <<"_", "_", "i", "n", "i", "t", "_", "_">>

\* _synthesize_typeddict_init: zero or one constructor entry
SynthesizeTypedDictInit(obj) ==
    LET params == TypedDictParams(obj.members)
    IN IF params = <<>> THEN <<>>
       ELSE <<[name |-> InitName,
               kind |-> "constructor",
               type |-> <<>>,
               target |-> <<>>,
               signature |-> InitName \o <<"(", "\n", " ", " ", " ", " ">>
                             \o Join(ParamStrs(params), <<",", "\n", " ", " ", " ", " ">>)
                             \o <<",", "\n", ")">>,
               params |-> params]>>

\* _get_member_info, lines 653-674: the entries of the members
RECURSIVE MemberEntries(_)
MemberEntries(members) ==
    IF members = <<>> THEN <<>>
    ELSE LET member == Head(members) IN
         (IF StartsWith(member.name, <<"_">>) THEN <<>>
          ELSE <<[name |-> member.name,
                  kind |-> member.kind,
                  type |-> IF /\ member.kind = "attribute"
                              /\ member.annotation # <<>>
                              /\ ~IsInvalidRepr(member.annotation)
                           THEN member.annotation ELSE <<>>,
                  target |-> member.target,
                  signature |-> <<>>,
                  params |-> <<>>]>>)
         \o MemberEntries(Tail(members))

\* _get_member_info
MemberInfo(obj) ==
    (IF IsTypedDict(obj) THEN SynthesizeTypedDictInit(obj) ELSE <<>>)
    \o MemberEntries(obj.members)

IntText == <<"i", "n", "t">>

BaseLists ==
    { <<>>,
      <<<<"d", "i", "c", "t">>>>,
      <<TypedDictText>>,
      <<<<"B", "a", "s", "e">>, <<"t", ".", "T", "y", "p", "e", "d", "D", "i", "c", "t">>>> }

MemberShapes ==
    [name : {<<"x">>, <<"_", "y">>, <<"z">>},
     kind : {"attribute", "method"},
     annotation : {<<>>, IntText, ClassText},
     target : {<<>>}]

\* the members mappings: the names are the keys of a dict
MemberLists ==
    UNION {{ms \in [1..k -> MemberShapes] :
              \A i, j \in 1..k : i # j => ms[i].name # ms[j].name} : k \in 0..MaxMembers}

InitTypedDict ==
    /\ PipeIdle
    /\ cfg = DefaultCfg
    /\ flt = IdleFlt
    /\ sig = IdleSig
    /\ \E bases \in BaseLists, ms \in MemberLists :
          call = [done |-> FALSE, obj |-> [bases |-> bases, members |-> ms],
                  members |-> <<>>]

MemberInfoCall ==
    /\ pc = "idle"
    /\ ~call.done
    /\ call' = [call EXCEPT !.done = TRUE, !.members = MemberInfo(call.obj)]
    /\ UNCHANGED <<pipeVars, flt, sig>>

NextTypedDict == MemberInfoCall

SpecTypedDict == InitTypedDict /\ [][NextTypedDict]_vars

(***************************************************************************)
(* IRTransformer._generate_package_id and _generate_url, on the package    *)
(* name of the configuration and the kind and path of a symbol.  Texts are *)
(* sequences of characters.                                                *)
(***************************************************************************)
MaxPackageNameLen == 3

MaxUrlSegments == 3

\* s.split(sep) for a one-character sep
RECURSIVE Split(_, _)
Split(s, sep) ==
    IF sep \notin Range(s) THEN <<s>>
    ELSE LET i == IndexOf(s, sep)
         IN <<SubSeq(s, 1, i - 1)>> \o Split(SubSeq(s, i + 1, Len(s)), sep)

\* _generate_package_id
GeneratePackageId(package_name) ==
    LET normalized == Replace(Replace(package_name, "-", "_"), ".", "_")
    IN <<"p", "k", "g", "_", "p", "y", "_">> \o normalized

\* _generate_url
GenerateUrl(config_package_name, kind, path) ==
    LET parts == Split(path, ".")
        package_name == Replace(config_package_name, "-", "_")
        head == <<"/", "p", "y", "t", "h", "o", "n", "/">> \o package_name
    IN CASE kind = "class" ->
              head \o <<"/", "c", "l", "a", "s", "s", "e", "s", "/">> \o parts[Len(parts)] \o <<"/">>
         [] kind = "function" ->
              head \o <<"/", "f", "u", "n", "c", "t", "i", "o", "n", "s", "/">> \o parts[Len(parts)] \o <<"/">>
         [] kind = "module" ->
              head \o <<"/", "m", "o", "d", "u", "l", "e", "s", "/">> \o Join(Tail(parts), <<"/">>) \o <<"/">>
         [] OTHER ->
              head \o <<"/">> \o KindText(kind) \o <<"s", "/">> \o parts[Len(parts)] \o <<"/">>

PackageNames == UNION {[1..k -> {"a", "-", "."}] : k \in 1..MaxPackageNameLen}

UrlSegmentLists == UNION {[1..k -> {<<"a">>, <<"b", "c">>}] : k \in 1..MaxUrlSegments}

InitUrls ==
    /\ PipeIdle
    /\ cfg = DefaultCfg
    /\ flt = IdleFlt
    /\ sig = IdleSig
    /\ \E package_name \in PackageNames, segments \in UrlSegmentLists,
          kind \in {"module", "class", "function", "method", "attribute"} :
          call = [done |-> FALSE, package_name |-> package_name, kind |-> kind,
                  segments |-> segments, path |-> Join(segments, <<".">>),
                  package_id |-> <<>>, url |-> <<>>]

\* IRTransformer.__init__ line 293, then _transform_symbol line 354
UrlCall ==
    /\ pc = "idle"
    /\ ~call.done
    /\ call' = [call EXCEPT !.done = TRUE,
                            !.package_id = GeneratePackageId(call.package_name),
                            !.url = GenerateUrl(call.package_name, call.kind, call.path)]
    /\ UNCHANGED <<pipeVars, flt, sig>>

NextUrls == UrlCall

SpecUrls == InitUrls /\ [][NextUrls]_vars

(***************************************************************************)
(* cli.main, one run of the command.  call is the run:                     *)
(*   args    the command line: package and path are "missing" (the option  *)
(*           is not given), "empty" (given as "") or "ok"; output is       *)
(*           "missing" or "ok"; docstring_style is a text; raw the flag    *)
(*   env     what the run meets: load, the outcome of griffe.load ("ok",   *)
(*           "not_found": FileNotFoundError, "raises": another exception); *)
(*           symbols and warnings, how many of each the walk collects;     *)
(*           write, whether the output file can be written; stdout, the    *)
(*           encoding of standard output ("utf-8", or "ascii", which       *)
(*           cannot encode the signs of the messages)                      *)
(*   pos     the statement of main that runs next                          *)
(*   code    the exit status of the process (NoCode while it runs)         *)
(*   working extractor.extract() has been called                           *)
(*   document the content of the output file (<<>>: no file written)       *)
(***************************************************************************)
NoCode == 0 - 1

MaxSymbols == 2

DocstringStyles == {"google", "numpy", "sphinx"}

\* a return statement of main
Return(c, code) == [c EXCEPT !.pos = "returned", !.code = code]

\* line 97: parser.parse_args(args).  A required option that is missing, or
\* a style that is none of the choices, ends the process: SystemExit(2)
ParseArgs ==
    /\ pc = "idle"
    /\ call.pos = "parse"
    /\ IF \/ call.args.package = "missing"
          \/ call.args.path = "missing"
          \/ call.args.output = "missing"
          \/ call.args.docstring_style \notin DocstringStyles
       THEN call' = [call EXCEPT !.pos = "exited", !.code = 2]
       ELSE call' = [call EXCEPT !.pos = "config"]
    /\ UNCHANGED <<pipeVars, flt, sig>>

\* ExtractionConfig.__post_init__ raises ValueError
PostInitRaises(args) ==
    \/ args.package = "empty"
    \/ args.path = "empty"
    \/ args.docstring_style \notin DocstringStyles

\* lines 101-110: ExtractionConfig(...); except ValueError: return 1
CreateConfig ==
    /\ pc = "idle"
    /\ call.pos = "config"
    /\ IF PostInitRaises(call.args)
       THEN call' = Return(call, 1)
       ELSE call' = [call EXCEPT !.pos = "extract"]
    /\ UNCHANGED <<pipeVars, flt, sig>>

\* lines 121-122: extractor.extract().  griffe.load raises, or the walk
\* collects the symbols and the warnings; the line about the warnings
\* (extractor.py line 120) goes to standard output, and print raises
\* UnicodeEncodeError, a ValueError, where that cannot encode it
RunExtraction ==
    /\ pc = "idle"
    /\ call.pos = "extract"
    /\ IF call.env.load # "ok" \/ (call.env.warnings > 0 /\ call.env.stdout # "utf-8")
       THEN call' = [Return(call, 1) EXCEPT !.working = TRUE]
       ELSE call' = [call EXCEPT !.pos = "transform", !.working = TRUE,
                                 !.data = <<[format |-> "raw", symbols |-> call.env.symbols]>>]
    /\ UNCHANGED <<pipeVars, flt, sig>>

\* lines 128-132: the raw data, or transformer.transform(raw_data)
Transform ==
    /\ pc = "idle"
    /\ call.pos = "transform"
    /\ call' = [call EXCEPT !.pos = "write",
                            !.data = IF call.args.raw THEN call.data
                                     ELSE <<[format |-> "ir", symbols |-> call.data[1].symbols]>>]
    /\ UNCHANGED <<pipeVars, flt, sig>>

\* lines 138-142: mkdir, open, json.dump; except Exception: return 1
WriteOutput ==
    /\ pc = "idle"
    /\ call.pos = "write"
    /\ IF call.env.write # "ok"
       THEN call' = Return(call, 1)
       ELSE call' = [call EXCEPT !.pos = "report", !.document = call.data]
    /\ UNCHANGED <<pipeVars, flt, sig>>

\* lines 144-145: print the line of success, return 0; print raises
\* UnicodeEncodeError where standard output cannot encode it: return 1
Report ==
    /\ pc = "idle"
    /\ call.pos = "report"
    /\ call' = Return(call, IF call.env.stdout = "utf-8" THEN 0 ELSE 1)
    /\ UNCHANGED <<pipeVars, flt, sig>>

CliArgs ==
    [package : {"missing", "empty", "ok"}, path : {"missing", "empty", "ok"},
     output : {"missing", "ok"}, docstring_style : {"google", "rst"}, raw : BOOLEAN]

CliEnvs ==
    [load : {"ok", "not_found", "raises"}, symbols : {0, MaxSymbols}, warnings : {0, 1},
     write : {"ok", "fails"}, stdout : {"utf-8", "ascii"}]

InitCli ==
    /\ PipeIdle
    /\ cfg = DefaultCfg
    /\ flt = IdleFlt
    /\ sig = IdleSig
    /\ \E args \in CliArgs, env \in CliEnvs :
          call = [done |-> FALSE, args |-> args, env |-> env, pos |-> "parse",
                  code |-> NoCode, working |-> FALSE, data |-> <<>>, document |-> <<>>]

NextCli ==
    \/ ParseArgs
    \/ CreateConfig
    \/ RunExtraction
    \/ Transform
    \/ WriteOutput
    \/ Report

SpecCli == InitCli /\ [][NextCli]_vars

(***************************************************************************)
(* _extract_type_refs, lines 486-498: the search of a name in the scopes   *)
(* around the owning symbol.  chain is obj_context and its parents, the    *)
(* owning symbol first; a scope is [path, names, raises]: the segments of  *)
(* its path, the keys of its members, and whether reading its members      *)
(* raises.  Every member has a path, its scope's path and its name.        *)
(***************************************************************************)
MaxScopes == 3

\* mutant: the search goes on to the outermost scope that has the name
RECURSIVE ScopeSearchOutermost(_, _)
ScopeSearchOutermost(name, chain) ==
    IF chain = <<>> THEN <<>>
    ELSE IF Head(chain).raises THEN <<>>
    ELSE LET outer == ScopeSearchOutermost(name, Tail(chain))
         IN IF outer # <<>> THEN outer
            ELSE IF name \in Head(chain).names THEN Head(chain).path \o <<name>>
            ELSE <<>>

\* lines 488-498: the path of the member found, <<>> for None
RECURSIVE ScopeSearch(_, _)
ScopeSearch(name, chain) ==
    IF chain = <<>> THEN <<>>
    ELSE IF Head(chain).raises THEN <<>>
    ELSE IF name \in Head(chain).names THEN Head(chain).path \o <<name>>
    ELSE ScopeSearch(name, Tail(chain))

\* the paths of the scopes, outermost first
ScopePaths == <<<<"pkg">>, <<"pkg", "m">>, <<"pkg", "m", "C">>, <<"pkg", "m", "C", "f">>>>

\* the chains of k scopes: the package, a module, a class, ...; the owning
\* symbol, the innermost, comes first
ScopeChains ==
    UNION {{[i \in 1..k |-> [path |-> ScopePaths[k + 1 - i], names |-> ns[i],
                             raises |-> i = r]] :
              ns \in [1..k -> SUBSET {"Foo", "Bar"}], r \in 0..k} :
           k \in 1..MaxScopes}

\* no canonical path, the bare name, a path with a separator
CanonicalPaths(name) == {<<>>, <<name>>, <<"lib", name>>}

InitScopes ==
    /\ PipeIdle
    /\ cfg = DefaultCfg
    /\ flt = IdleFlt
    /\ sig = IdleSig
    /\ \E chain \in ScopeChains, type \in {"ExprName", "str"}, name \in {"Foo", "Bar", "int"} :
         \E canonical \in CanonicalPaths(name) :
            /\ type = "str" => (canonical = <<>> /\ name \in StrTexts)
            /\ call = [done |-> FALSE, chain |-> chain, type |-> type, name |-> name,
                       canonical |-> canonical, type_refs |-> <<>>]

\* extract_type_names_from_expr(expr, obj_context) on one annotation
ResolveCall ==
    /\ pc = "idle"
    /\ ~call.done
    /\ LET expr == IF call.type = "str" THEN ExprStr(call.name)
                   ELSE ExprName(call.name, call.canonical,
                                 ScopeSearch(call.name, call.chain))
       IN call' = [call EXCEPT !.done = TRUE,
                               !.type_refs = ExtractTypeNames(<<expr>>, RefsStart).type_refs]
    /\ UNCHANGED <<pipeVars, flt, sig>>

NextScopes == ResolveCall

SpecScopes == InitScopes /\ [][NextScopes]_vars

(***************************************************************************)
(* Vocabulary of the properties                                            *)
(***************************************************************************)
WalkOver == pc \in {"transform", "done"}

YieldedSet == Range(yielded)

DistinctPaths == {graph.path[n] : n \in Nodes}

\* the path contains one of the configured exclusion patterns
Excluded(path) ==
    \E pat \in Range(cfg.exclude_patterns) :
       \E i \in 1..(Len(path) + 1), j \in 0..Len(path) : SubSeq(path, i, j) = pat

\* n and the owners above it
RECURSIVE AncestorsOrSelf(_)
AncestorsOrSelf(n) ==
    IF n = NoNode THEN {} ELSE {n} \cup AncestorsOrSelf(graph.parent[n])

\* the nodes the walk recursed through to reach n, n included
RECURSIVE ViaChain(_, _)
ViaChain(n, fuel) ==
    IF n = NoNode \/ fuel = 0 THEN {} ELSE {n} \cup ViaChain(via[n], fuel - 1)

\* the nodes reachable from the root through members mappings of non-alias
\* nodes, themselves no alias
RECURSIVE ReachNoAlias(_, _)
ReachNoAlias(R, fuel) ==
    IF fuel = 0 THEN R
    ELSE ReachNoAlias(
           R \cup {m \in Nodes : ~graph.is_alias[m]
                                 /\ \E n \in R : m \in Range(graph.members[n])},
           fuel - 1)

OwnedReach == ReachNoAlias(IF graph.is_alias[Root] THEN {} ELSE {Root}, MaxNodes)

(***************************************************************************)
(* C1: on every finite symbol graph, cyclic ones included, the walk        *)
(* terminates and yields no more nodes than the graph has distinct paths.  *)
(***************************************************************************)
C1_WalkTerminatesBounded ==
    /\ <>WalkOver
    /\ [](Len(yielded) <= Cardinality(DistinctPaths))

\* a yielded node lists itself or one of its owners as a member, and the
\* walk ended having yielded every node once
C1_Witness ==
    /\ WalkOver
    /\ Len(yielded) = Cardinality(DistinctPaths)
    /\ \E n \in YieldedSet :
          Range(graph.members[n]) \cap AncestorsOrSelf(n) # {}

(***************************************************************************)
(* C2: the yielded sequence has no path twice, is a depth-first pre-order  *)
(* (a node comes after the node it was reached from, and the nodes reached *)
(* through a node follow it without interruption), and the nodes reached   *)
(* from one members mapping come in that mapping's order.                  *)
(***************************************************************************)
C2_DedupPreOrder ==
    /\ \A i, j \in 1..Len(yielded) :
          i < j => graph.path[yielded[i]] # graph.path[yielded[j]]
    /\ \A j \in 1..Len(yielded) :
          IF j = 1 THEN yielded[j] = Root /\ via[Root] = NoNode
          ELSE /\ yielded[j] \in Range(graph.members[via[yielded[j]]])
               /\ \E i \in 1..(j - 1) : yielded[i] = via[yielded[j]]
    /\ \A i, j, k \in 1..Len(yielded) :
          (i < j /\ j < k /\ yielded[i] \in ViaChain(yielded[k], MaxNodes + 1))
              => yielded[i] \in ViaChain(yielded[j], MaxNodes + 1)
    /\ \A i, j \in 1..Len(yielded) :
          (i < j /\ via[yielded[i]] # NoNode /\ via[yielded[i]] = via[yielded[j]])
              => IndexOf(graph.members[via[yielded[i]]], yielded[i])
                   < IndexOf(graph.members[via[yielded[i]]], yielded[j])
    /\ \A n \in YieldedSet \ {Root} :
          (\A p \in Nodes : n \in Range(graph.members[p]) => p = graph.parent[n])
              => via[n] = graph.parent[n]

\* two members of one node were yielded, and so was a member of the first
C2_Witness ==
    /\ WalkOver
    /\ \E i, j, k \in 1..Len(yielded) :
          /\ i < j /\ j < k
          /\ via[yielded[i]] = Root
          /\ via[yielded[j]] = yielded[i]
          /\ via[yielded[k]] = Root

(***************************************************************************)
(* C3: no node whose path contains an exclusion pattern is yielded or      *)
(* emitted; the check is made at the node itself (the root) and at each    *)
(* member before the walk recurses into it, so an excluded member is never *)
(* entered.                                                                *)
(***************************************************************************)
C3_ExcludedNeverYielded ==
    /\ \A n \in YieldedSet : ~Excluded(graph.path[n])
    /\ \A i \in 1..Len(symbols) : ~Excluded(symbols[i].path)
    /\ \A i \in 1..Len(ir) : ~Excluded(ir[i].qualifiedName)
    /\ \A n \in Nodes \ {Root} : Excluded(graph.path[n]) => graph.path[n] \notin visited

\* the walk ended, it yielded the owner of an excluded node and a node besides
C3_Witness ==
    /\ WalkOver
    /\ Len(yielded) >= 2
    /\ \E n \in Nodes \ {Root} :
          /\ Excluded(graph.path[n])
          /\ graph.parent[n] \in YieldedSet
          /\ n \notin YieldedSet

(***************************************************************************)
(* C4: no alias is yielded, no node reachable only through an alias is     *)
(* yielded, and no alias becomes a symbol record.                          *)
(***************************************************************************)
C4_AliasesNeverWalked ==
    /\ \A n \in YieldedSet : ~graph.is_alias[n] /\ n \in OwnedReach
    /\ \A i \in 1..Len(symbols) :
          \A n \in Nodes : graph.path[n] = symbols[i].path => ~graph.is_alias[n]
    /\ \A i \in 1..Len(ir) :
          \A n \in Nodes : graph.path[n] = ir[i].qualifiedName => ~graph.is_alias[n]

\* the walk ended, it yielded the owner of an alias that has a member, and
\* reached neither the alias nor the member
C4_Witness ==
    /\ WalkOver
    /\ \E a \in Nodes :
          /\ graph.is_alias[a]
          /\ graph.parent[a] \in YieldedSet
          /\ graph.members[a] # <<>>
          /\ \A m \in Range(graph.members[a]) : m \notin YieldedSet
          /\ a \notin YieldedSet
          /\ graph.path[a] \in visited

(***************************************************************************)
(* C5: the privacy rule of the inclusion filter.  For an object that is no *)
(* alias: with include_private unset, a name that begins with "_" is       *)
(* included exactly when include_special is set and the name begins and    *)
(* ends with "__"; every other name, and with include_private set every    *)
(* name, is included when its path matches no exclusion pattern.           *)
(***************************************************************************)
Private(name) == name[1] = "_"

Dunder(name) ==
    /\ Len(name) >= 2
    /\ name[1] = "_" /\ name[2] = "_"
    /\ name[Len(name) - 1] = "_" /\ name[Len(name)] = "_"

C5_PrivacyRule ==
    (flt.done /\ ~flt.is_alias) =>
        IF Private(flt.name) /\ ~cfg.include_private
        THEN flt.result = (cfg.include_special /\ Dunder(flt.name))
        ELSE flt.result = ~Excluded(flt.path)

\* a dunder name (__a__, as __init__) is included when only include_special is set
C5_Witness ==
    /\ flt.done /\ ~flt.is_alias
    /\ ~cfg.include_private /\ cfg.include_special
    /\ flt.name = <<"_", "_", "a", "_", "_">>
    /\ flt.result

(***************************************************************************)
(* C9: a parameter list that starts with a run of positional-only          *)
(* parameters gets exactly one "/" token, right after the last parameter   *)
(* of the run: before the first following parameter when there is one, as  *)
(* the last token otherwise.  A list with no positional-only parameter     *)
(* gets no "/" token.                                                      *)
(***************************************************************************)
Count(seq, x) == Cardinality({i \in 1..Len(seq) : seq[i] = x})

\* the length of the leading run of positional-only parameters
LeadingRun(ps) ==
    IF \A i \in 1..Len(ps) : ps[i].kind = "positional_only" THEN Len(ps)
    ELSE (CHOOSE i \in 1..Len(ps) :
            /\ ps[i].kind # "positional_only"
            /\ \A j \in 1..(i - 1) : ps[j].kind = "positional_only") - 1

\* the token of a parameter, whatever separator precedes it
Rendered(p) ==
    (CASE p.kind = "var_positional" -> <<"*">>
       [] p.kind = "var_keyword"    -> <<"*", "*">>
       [] OTHER                     -> <<>>)
    \o p.name
    \o (IF p.default = <<>> THEN <<>> ELSE <<" ", "=", " ">> \o p.default)

C9_SlashAfterPositionalOnly ==
    sig.done =>
        LET ps == sig.parameters
            r == LeadingRun(ps)
            toks == sig.params
        IN /\ (r >= 1) =>
                /\ Count(toks, <<"/">>) = 1
                /\ \A i \in 1..r : toks[i] = Rendered(ps[i])
                /\ toks[r + 1] = <<"/">>
                /\ IF r = Len(ps) THEN Len(toks) = r + 1
                   ELSE \/ toks[r + 2] = Rendered(ps[r + 1])
                        \/ toks[r + 2] = <<"*">> /\ toks[r + 3] = Rendered(ps[r + 1])
           /\ (\A i \in 1..Len(ps) : ps[i].kind # "positional_only")
                => Count(toks, <<"/">>) = 0

\* two trailing positional-only parameters: the separator is the last token
C9_Witness ==
    /\ sig.done
    /\ Len(sig.parameters) = 2
    /\ sig.parameters[1].kind = "positional_only"
    /\ sig.parameters[2].kind = "positional_only"
    /\ sig.params = << <<"a">>, <<"b">>, <<"/">> >>

(***************************************************************************)
(* C10: a bare "*" token is inserted exactly once, right before the first  *)
(* keyword-only parameter, if and only if there is a keyword-only          *)
(* parameter and no var-positional parameter precedes it; var-positional   *)
(* renders as "*name", var-keyword as "**name"; (a, b=1, *args, c,         *)
(* **kwargs) gives a, b = 1, *args, c, **kwargs with no bare "*".          *)
(***************************************************************************)
FirstKeywordOnly(ps) ==
    IF \A i \in 1..Len(ps) : ps[i].kind # "keyword_only" THEN 0
    ELSE CHOOSE i \in 1..Len(ps) :
            /\ ps[i].kind = "keyword_only"
            /\ \A j \in 1..(i - 1) : ps[j].kind # "keyword_only"

ExampleParams ==
    << [name |-> <<"a">>, kind |-> "positional_or_keyword", annotation |-> <<>>, default |-> <<>>],
       [name |-> <<"b">>, kind |-> "positional_or_keyword", annotation |-> <<>>, default |-> <<"1">>],
       [name |-> <<"c">>, kind |-> "var_positional", annotation |-> <<>>, default |-> <<>>],
       [name |-> <<"d">>, kind |-> "keyword_only", annotation |-> <<>>, default |-> <<>>],
       [name |-> <<"e">>, kind |-> "var_keyword", annotation |-> <<>>, default |-> <<>>] >>

ExampleTokens ==
    << <<"a">>, <<"b", " ", "=", " ", "1">>, <<"*", "c">>, <<"d">>, <<"*", "*", "e">> >>

C10_StarBeforeKeywordOnly ==
    sig.done =>
        LET ps == sig.parameters
            k == FirstKeywordOnly(ps)
            toks == sig.params
            wanted == k > 0 /\ \A j \in 1..(k - 1) : ps[j].kind # "var_positional"
        IN /\ Count(toks, <<"*">>) = (IF wanted THEN 1 ELSE 0)
           /\ wanted =>
                \E t \in 1..(Len(toks) - 1) :
                   /\ toks[t] = <<"*">>
                   /\ toks[t + 1] = Rendered(ps[k])
                   /\ t - 1 = (k - 1) + Count(SubSeq(toks, 1, t - 1), <<"/">>)
           /\ \A i \in 1..Len(ps) :
                /\ ps[i].kind = "var_positional" => Count(toks, <<"*">> \o ps[i].name) = 1
                /\ ps[i].kind = "var_keyword" => Count(toks, <<"*", "*">> \o ps[i].name) = 1
           /\ ps = ExampleParams => toks = ExampleTokens

\* the signature of (a, b=1, *args, c, **kwargs) has been synthesized
C10_Witness ==
    /\ sig.done
    /\ sig.parameters = ExampleParams
    /\ sig.params = ExampleTokens

WalkFaults == {"path", "is_alias", "members"}

Eligible(n) ==
    /\ graph.fault[n] \notin {"path", "is_alias"}
    /\ ~graph.is_alias[n]
    /\ ~Excluded(graph.path[n])

C7_LaterSiblingsYielded ==
    WalkOver =>
        \A p \in YieldedSet :
           \A i, j \in 1..Len(graph.members[p]) :
              (/\ i < j
               /\ graph.fault[graph.members[p][i]] \in WalkFaults
               /\ Eligible(graph.members[p][j]))
                  => graph.members[p][j] \in YieldedSet

(***************************************************************************)
(* C8, as claimed: every symbol whose inclusion check, extraction or       *)
(* transformation fails is dropped, exactly one warning is accumulated for *)
(* each, and every other symbol is emitted.                                *)
(***************************************************************************)
Considered(n) == ~ShouldIncludeRaises(n) /\ ShouldInclude(n) /\ GetKind(n) # "unknown"

TransformFails(n) == graph.fault[n] = "transform"

Fails(n) ==
    \/ ShouldIncludeRaises(n)
    \/ Considered(n) /\ (ExtractRaises(n) \/ TransformFails(n))

Emitted(n) == Considered(n) /\ ~ExtractRaises(n) /\ ~TransformFails(n)

RECURSIVE PathsOf(_)
PathsOf(nodes) ==
    IF nodes = <<>> THEN <<>> ELSE <<graph.path[Head(nodes)]>> \o PathsOf(Tail(nodes))

IrPaths == [i \in 1..Len(ir) |-> ir[i].qualifiedName]

C8_OneWarningPerFailure ==
    pc = "done" =>
        /\ IrPaths = PathsOf(SelectSeq(yielded, Emitted))
        /\ Len(errors) = Cardinality({n \in YieldedSet : Fails(n)})

(***************************************************************************)
(* C8, amended: a symbol whose inclusion check raises is dropped with      *)
(* exactly one accumulated warning; a symbol whose extraction raises is    *)
(* dropped with no warning; a symbol whose transformation raises is        *)
(* dropped with one printed, not accumulated, warning; every other symbol  *)
(* is emitted, in the order of the walk.                                   *)
(***************************************************************************)
C8_FailuresDropOnlyTheSymbol ==
    pc = "done" =>
        /\ IrPaths = PathsOf(SelectSeq(yielded, Emitted))
        /\ errors = SelectSeq(yielded, ShouldIncludeRaises)
        /\ stdout = PathsOf(SelectSeq(yielded,
                              LAMBDA n : Considered(n) /\ ~ExtractRaises(n) /\ TransformFails(n)))

\* a run ended in which the extraction of a yielded symbol raised: no warning
\* was accumulated, and the other symbols were emitted
C8_Witness ==
    /\ pc = "done"
    /\ \E n \in YieldedSet : Considered(n) /\ graph.fault[n] = "extract"
    /\ errors = <<>>
    /\ Len(ir) >= 2

(***************************************************************************)
(* C11: when the text of one parameter's annotation (or default) resembles *)
(* a runtime object representation, the signature omits only that          *)
(* annotation (or default): it is the signature the same callable has      *)
(* without it, it still shows the parameter's name, and the text is        *)
(* nowhere in it.                                                          *)
(***************************************************************************)
C11_OnlyTheReprOmitted ==
    sig.done =>
        \A i \in 1..Len(sig.obj.parameters) :
            LET param == sig.obj.parameters[i]
                rendered == IF param.kind = "var_keyword"
                            THEN <<"*", "*">> \o param.name ELSE param.name
            IN /\ (\E pattern \in InvalidPatterns : Contains(param.annotation, pattern)) =>
                    /\ sig.signature =
                         GetSignature([sig.obj EXCEPT !.parameters[i].annotation = <<>>,
                                                      !.repr_lists_fields = FALSE])
                    /\ Contains(sig.signature, <<" ", " ", " ", " ">> \o rendered)
                    /\ ~Contains(sig.signature, param.annotation)
               /\ (\E pattern \in InvalidPatterns : Contains(param.default, pattern)) =>
                    /\ sig.signature =
                         GetSignature([sig.obj EXCEPT !.parameters[i].default = <<>>,
                                                      !.repr_lists_fields = FALSE])
                    /\ Contains(sig.signature, <<" ", " ", " ", " ">> \o rendered)
                    /\ ~Contains(sig.signature, param.default)

\* C11 where repr(parameters) names no field of the parameters
C11_HoldsForOpaqueRepr == sig.obj.repr_lists_fields \/ C11_OnlyTheReprOmitted

(***************************************************************************)
(* C12: the type-reference list of a symbol has no name twice and no name  *)
(* of the builtin allow-list, and lists the names in order of first        *)
(* encounter over the parameter annotations, the return annotation and the *)
(* bases; Union[Foo, Foo, Bar] yields exactly Foo and Bar.                 *)
(***************************************************************************)
\* the names the expressions mention, left to right, repetitions included
RECURSIVE NamesIn(_)
NamesIn(exprs) ==
    IF exprs = <<>> THEN <<>>
    ELSE LET expr == Head(exprs)
             here == IF expr.type = "ExprName" \/ (expr.type = "str" /\ IsIdentifier(expr.name))
                     THEN <<expr.name>>
                     ELSE IF expr.type \in {"ExprBinOp", "ExprSubscript", "ExprTuple"}
                     THEN NamesIn(expr.args)
                     ELSE <<>>
         IN here \o NamesIn(Tail(exprs))

\* some expression of exprs raises when read
RECURSIVE AnyRaises(_)
AnyRaises(exprs) ==
    \E i \in 1..Len(exprs) : exprs[i].raises \/ AnyRaises(exprs[i].args)

\* names without the allow-listed ones, each kept where it first occurs
FirstEncounters(names) ==
    LET keep == {i \in 1..Len(names) :
                    /\ names[i] \notin builtins
                    /\ \A j \in 1..(i - 1) : names[j] # names[i]}
        F[i \in 0..Len(names)] ==
            IF i = 0 THEN <<>>
            ELSE IF i \in keep THEN Append(F[i - 1], names[i]) ELSE F[i - 1]
    IN F[Len(names)]

RefNames(refs) == [i \in 1..Len(refs) |-> refs[i].name]

UnionFooFooBar ==
    ExprOf("ExprSubscript",
           <<ExprName("Union", <<"typing", "Union">>, <<>>),
             ExprOf("ExprTuple", <<Foo, Foo, Bar>>, FALSE)>>, FALSE)

C12_TypeRefsDeduplicated ==
    call.done =>
        LET all == call.obj.annotations \o call.obj.returns \o call.obj.bases
        IN /\ \A i, j \in 1..Len(call.typeRefs) :
                call.typeRefs[i].name = call.typeRefs[j].name => i = j
           /\ \A i \in 1..Len(call.typeRefs) : call.typeRefs[i].name \notin builtins
           /\ RefNames(call.typeRefs) = RefNames(call.type_refs)
           /\ ~AnyRaises(all) => RefNames(call.typeRefs) = FirstEncounters(NamesIn(all))
           /\ all = <<UnionFooFooBar>> => RefNames(call.typeRefs) = <<"Foo", "Bar">>

\* the references of a callable whose only annotation is Union[Foo, Foo, Bar]
C12_Witness ==
    /\ call.done
    /\ call.obj = [annotations |-> <<UnionFooFooBar>>, returns |-> <<>>, bases |-> <<>>]
    /\ Len(call.typeRefs) = 2

(***************************************************************************)
(* C13: when resolving the type references of a symbol raises, in a        *)
(* parameter, the return annotation or a base, the type-reference list of  *)
(* the symbol is empty.                                                    *)
(***************************************************************************)
C13_EmptyListOnException ==
    (call.done /\ AnyRaises(call.obj.annotations \o call.obj.returns \o call.obj.bases))
        => call.type_refs = <<>>

(***************************************************************************)
(* C14: docs.examples of a symbol has no two entries with the same code    *)
(* and no empty entry; its codes are the non-empty cleaned, dedented texts *)
(* of the items of all the symbol's examples sections, each once, in the   *)
(* order in which they first occur.                                        *)
(***************************************************************************)
\* the items of all the examples sections, in order
RECURSIVE ExampleItemsOf(_)
ExampleItemsOf(sections) ==
    IF sections = <<>> THEN <<>>
    ELSE (IF Head(sections).kind = "examples" /\ Head(sections).is_list
          THEN Head(sections).value ELSE <<>>) \o ExampleItemsOf(Tail(sections))

C14_ExamplesDeduplicated ==
    call.done =>
        LET items == ExampleItemsOf(call.sections)
            codes == [i \in 1..Len(items) |-> ExampleCode(items[i])]
            FirstAt(code) == CHOOSE i \in 1..Len(codes) :
                                /\ codes[i] = code
                                /\ \A j \in 1..(i - 1) : codes[j] # code
            out == call.examples
        IN /\ \A i, j \in 1..Len(out) : out[i].code = out[j].code => i = j
           /\ \A i \in 1..Len(out) : out[i].code # <<>>
           /\ {out[i].code : i \in 1..Len(out)} = Range(codes) \ {<<>>}
           /\ \A i, j \in 1..Len(out) :
                i < j => FirstAt(out[i].code) < FirstAt(out[j].code)

\* two examples sections; an item of the second cleans to the text of an
\* item of the first whose raw text differs, and one example is emitted for
\* both
C14_Witness ==
    /\ call.done
    /\ Len(call.sections) >= 2
    /\ LET items == ExampleItemsOf(call.sections)
       IN /\ Len(items) = 3
          /\ items[1].text # items[3].text
          /\ ExampleCode(items[1]) = ExampleCode(items[3])
          /\ ExampleCode(items[1]) # <<>>
          /\ ExampleCode(items[2]) \notin {<<>>, ExampleCode(items[1])}
          /\ Len(call.examples) = 2

(***************************************************************************)
(* C15: the id of a symbol is a function of its kind and path, and two     *)
(* symbols whose path digests do not collide get the same id only if they  *)
(* have the same kind and the same path, also when their paths flatten to  *)
(* the same underscore form or when they share a path with different kinds.*)
(***************************************************************************)
C15_IdInjective ==
    call.done =>
        LET same == call.kind1 = call.kind2 /\ call.path1 = call.path2
            collide == call.path1 # call.path2
                       /\ Digest(call.path1, 7) = Digest(call.path2, 7)
        IN /\ same => call.id1 = call.id2
           /\ (call.id1 = call.id2 /\ ~collide) => same

\* the ids of two classes a.b_c and a_b.c, whose paths flatten to a_b_c
C15_Witness ==
    /\ call.done
    /\ call.kind1 = "class" /\ call.kind2 = "class"
    /\ call.path1 = <<"a", ".", "b", "_", "c">>
    /\ call.path2 = <<"a", "_", "b", ".", "c">>
    /\ Replace(call.path1, ".", "_") = Replace(call.path2, ".", "_")
    /\ call.id1 # call.id2

(***************************************************************************)
(* C16: the refId of every member entry of an emitted class or module is   *)
(* the id of the member's kind and of the parent's path joined with the    *)
(* member's name; so when the member, an object the parent owns, is itself *)
(* emitted as a record, the entry's refId is the id of that record.        *)
(***************************************************************************)
C16_RefIdIsMemberId ==
    \A i \in 1..Len(ir) :
        /\ \A k \in 1..Len(ir[i].members) :
              LET e == ir[i].members[k]
              IN e.refId = GenerateSymbolId(e.kind, ir[i].qualifiedName \o <<".">> \o e.name)
        /\ \A n \in Nodes, m \in Nodes, j \in 1..Len(ir) :
              (/\ graph.path[n] = ir[i].qualifiedName
               /\ ir[i].kind \in {"class", "module"}
               /\ m \in Range(graph.members[n])
               /\ graph.parent[m] = n
               /\ ~StartsWith(graph.name[m], <<"_">>)
               /\ ir[j].qualifiedName = graph.path[m])
              => \E k \in 1..Len(ir[i].members) :
                    /\ ir[i].members[k].name = graph.name[m]
                    /\ ir[i].members[k].refId = ir[j].id

\* the run ended; a class was emitted with a method it owns, which was
\* emitted too, and the module above the class lists the class
C16_Witness ==
    /\ pc = "done"
    /\ \E i, j, h \in 1..Len(ir) :
          /\ ir[i].kind = "class" /\ ir[j].kind = "method" /\ ir[h].kind = "module"
          /\ Len(ir[i].members) >= 1
          /\ ir[i].members[1].refId = ir[j].id
          /\ \E k \in 1..Len(ir[h].members) : ir[h].members[k].refId = ir[i].id

(***************************************************************************)
(* C17, as claimed: the path behind the "/extracted/" marker is returned   *)
(* whatever prefix is placed before the marker; the example path           *)
(* normalizes to libs/mypkg/sub/file.py.                                   *)
(***************************************************************************)
\* file_path is prefix, "extracted", rest: the marker is segment i
MarkerAt(file_path, i) ==
    /\ 2 <= i /\ i < Len(file_path)
    /\ file_path[i] = "extracted"
    /\ file_path[i + 1] # ""

C17_AnyPrefixStripped ==
    call.done =>
        /\ call.file_path = ExamplePath => call.result = Returned(PackagePath)
        /\ \A i \in 1..Len(call.file_path) :
              (MarkerAt(call.file_path, i)
               /\ SubSeq(call.file_path, i + 1, Len(call.file_path)) = PackagePath)
              => call.result = Returned(PackagePath)

(***************************************************************************)
(* C17, amended: the path behind the first "/extracted/" marker is         *)
(* returned: a prefix is stripped whole when it holds no marker itself.    *)
(***************************************************************************)
C17_PrefixBeforeFirstMarkerStripped ==
    call.done =>
        /\ call.file_path = ExamplePath => call.result = Returned(PackagePath)
        /\ \A i \in 1..Len(call.file_path) :
              (MarkerAt(call.file_path, i)
               /\ \A j \in 1..(i - 1) : ~MarkerAt(call.file_path, j))
              => call.result = Returned(SubSeq(call.file_path, i + 1, Len(call.file_path)))

\* the example path has been normalized
C17_Witness ==
    /\ call.done
    /\ call.file_path = ExamplePath
    /\ call.result = Returned(PackagePath)

(***************************************************************************)
(* C18, as claimed: every path that is already relative (it starts neither *)
(* with "/" nor with "..") is returned unchanged, also when it has an      *)
(* "extracted" segment.                                                    *)
(***************************************************************************)
IsRelative(file_path) ==
    /\ file_path # <<>>
    /\ ~(Len(file_path) >= 2 /\ file_path[1] = "")
    /\ file_path[1] # ".."

C18_RelativeUnchanged ==
    (call.done /\ IsRelative(call.file_path)) => call.result = Returned(call.file_path)

(***************************************************************************)
(* C18, amended: a relative path is returned unchanged unless it holds a   *)
(* "/extracted/" marker followed by a segment; then the path behind the    *)
(* first marker is returned.                                               *)
(***************************************************************************)
C18_RelativeUnchangedUnlessMarker ==
    (call.done /\ IsRelative(call.file_path)) =>
        IF \E i \in 1..Len(call.file_path) : MarkerAt(call.file_path, i)
        THEN \E i \in 1..Len(call.file_path) :
                /\ MarkerAt(call.file_path, i)
                /\ \A j \in 1..(i - 1) : ~MarkerAt(call.file_path, j)
                /\ call.result = Returned(SubSeq(call.file_path, i + 1, Len(call.file_path)))
        ELSE call.result = Returned(call.file_path)

\* a relative path with a marker has been cut, and it is not the result
C18_Witness ==
    /\ call.done
    /\ call.file_path = <<"p", "extracted", "libs", "p">>
    /\ call.result = Returned(<<"libs", "p">>)

(***************************************************************************)
(* C19: every entry of a parameters, args or arguments section gives one   *)
(* param record, whose type is "Any" when the entry has no annotation and  *)
(* whose required is true exactly when the entry has no default value.     *)
(***************************************************************************)
C19_TypeAnyAndRequired ==
    (call.done /\ call.section.kind \in {"parameters", "args", "arguments"}) =>
        /\ Len(call.params) = Len(call.section.value)
        /\ \A i \in 1..Len(call.params) :
              /\ call.section.value[i].annotation = <<>> => call.params[i].type = <<"Any">>
              /\ call.params[i].required <=> (call.section.value[i].default = <<>>)

\* the part of C19 about required
C19_RequiredIffNoDefault ==
    (call.done /\ call.section.kind \in {"parameters", "args", "arguments"}) =>
        /\ Len(call.params) = Len(call.section.value)
        /\ \A i \in 1..Len(call.params) :
              /\ call.section.value[i].annotation # <<>> =>
                    call.params[i].type = call.section.value[i].annotation
              /\ call.params[i].required <=> (call.section.value[i].default = <<>>)

(***************************************************************************)
(* C20: the stability tag is deprecated whenever the docstring has a       *)
(* deprecated section; otherwise experimental if the summary or a text     *)
(* section holds "experimental" in any letter case; otherwise beta if one  *)
(* holds "beta"; otherwise stable.                                         *)
(***************************************************************************)
\* the summary or the value of a text section holds the word, in any case
Mentions(docstring, word) ==
    \/ Contains(Lower(docstring.summary), word)
    \/ \E i \in 1..Len(docstring.sections) :
          /\ docstring.sections[i].kind = "text"
          /\ Contains(Lower(docstring.sections[i].value), word)

C20_StabilityPrecedence ==
    call.done =>
        call.stability =
            (IF \E i \in 1..Len(call.docstring.sections) :
                   call.docstring.sections[i].kind = "deprecated"
             THEN "deprecated"
             ELSE IF Mentions(call.docstring, Experimental) THEN "experimental"
             ELSE IF Mentions(call.docstring, Beta) THEN "beta"
             ELSE "stable")

\* a docstring without a deprecated section whose summary says beta and
\* whose description says Experimental in capitals: the tag is experimental
C20_Witness ==
    /\ call.done
    /\ call.docstring.summary = <<"B", "E", "T", "A">>
    /\ Len(call.docstring.sections) = 1
    /\ call.docstring.sections[1].kind = "text"
    /\ call.docstring.sections[1].value # Lower(call.docstring.sections[1].value)
    /\ Contains(Lower(call.docstring.sections[1].value), Experimental)
    /\ call.stability = "experimental"

(***************************************************************************)
(* C21: the kind of a record is the object's kind for a module, a class    *)
(* and an attribute; for a function it is "method" when the parent is a    *)
(* class and "function" otherwise; an object whose kind is missing or not  *)
(* one of these has no record, neither among the extracted symbols nor in  *)
(* the IR.                                                                 *)
(***************************************************************************)
\* the kind the claim gives the object, "" where it gives none
ClaimedKind(n) ==
    CASE graph.kind[n] \in {"module", "class", "attribute"} -> graph.kind[n]
      [] graph.kind[n] = "function" ->
            IF graph.parent[n] # NoNode /\ graph.kind[graph.parent[n]] = "class"
            THEN "method" ELSE "function"
      [] OTHER -> ""

C21_KindClassification ==
    /\ \A i \in 1..Len(symbols) :
          \E n \in Nodes : /\ graph.path[n] = symbols[i].path
                           /\ ClaimedKind(n) # ""
                           /\ symbols[i].kind = ClaimedKind(n)
    /\ \A i \in 1..Len(ir) :
          \E n \in Nodes : /\ graph.path[n] = ir[i].qualifiedName
                           /\ ClaimedKind(n) # ""
                           /\ ir[i].kind = ClaimedKind(n)
    /\ pc = "done" =>
          \A n \in Range(yielded) :
              ClaimedKind(n) # "" =>
                  /\ \E i \in 1..Len(symbols) : /\ symbols[i].path = graph.path[n]
                                                /\ symbols[i].kind = ClaimedKind(n)
                  /\ \E i \in 1..Len(ir) : /\ ir[i].qualifiedName = graph.path[n]
                                           /\ ir[i].kind = ClaimedKind(n)

\* the run ended: a method has its record under its class, an object of the
\* kind type alias or without a kind was walked and has none
C21_Witness ==
    /\ pc = "done"
    /\ \E i, j \in 1..Len(ir) : ir[i].kind = "method" /\ ir[j].kind = "class"
    /\ \E n \in Range(yielded) :
          /\ graph.kind[n] \in {"type alias", "none"}
          /\ \A i \in 1..Len(ir) : ir[i].qualifiedName # graph.path[n]
          /\ \A i \in 1..Len(symbols) : symbols[i].path # graph.path[n]

(***************************************************************************)
(* C22, as claimed: the member list of a class with a TypedDict base has   *)
(* one constructor entry, whose parameters are the class's non-private     *)
(* attributes that have an annotation, in declaration order, each with its *)
(* annotation; an attribute without an annotation gives no parameter.      *)
(***************************************************************************)
HasTypedDictBase(obj) ==
    \E i \in 1..Len(obj.bases) : Contains(obj.bases[i], TypedDictText)

PublicAttributes(members) ==
    SelectSeq(members, LAMBDA m : ~StartsWith(m.name, <<"_">>) /\ m.kind = "attribute")

Constructors(entries) == {i \in 1..Len(entries) : entries[i].kind = "constructor"}

SectionForKind(kind) ==
    IF kind = "class" THEN <<"c", "l", "a", "s", "s", "e", "s">>
    ELSE KindText(kind) \o <<"s">>

UrlTail(kind, segments) ==
    IF kind = "module" THEN Join(Tail(segments), <<"/">>) ELSE segments[Len(segments)]

PackageIdPrefix == <<"p", "k", "g", "_", "p", "y", "_">>

C23_UrlUsesPackageIdName ==
    call.done =>
        /\ StartsWith(call.package_id, PackageIdPrefix)
        /\ call.url = <<"/", "p", "y", "t", "h", "o", "n", "/">>
                      \o SubSeq(call.package_id, Len(PackageIdPrefix) + 1, Len(call.package_id))
                      \o <<"/">> \o SectionForKind(call.kind)
                      \o <<"/">> \o UrlTail(call.kind, call.segments) \o <<"/">>

\* what holds: the claim for the package names without a "."
C23_HoldsWithoutDot ==
    (call.done /\ "." \notin Range(call.package_name)) => C23_UrlUsesPackageIdName

(***************************************************************************)
(* C24: a run of the command ends with exit code 0 exactly when it has     *)
(* written the output document, and with 1 on a configuration error, a     *)
(* missing path or a failure of the extraction; a configuration error ends *)
(* the run before the extraction starts; warnings and an empty symbol list *)
(* still end with a written document and exit code 0.                      *)
(***************************************************************************)
CliEnded == call.pos \in {"returned", "exited"}

\* an option that is required is missing or empty, or the style is invalid
ConfigurationError(args) ==
    \/ args.package # "ok"
    \/ args.path # "ok"
    \/ args.output # "ok"
    \/ args.docstring_style \notin {"google", "numpy", "sphinx"}

C24_ExitCodes ==
    /\ ConfigurationError(call.args) => ~call.working
    /\ CliEnded =>
          /\ call.code = 0 <=> call.document # <<>>
          /\ (ConfigurationError(call.args) \/ call.env.load # "ok") => call.code = 1
          /\ (~ConfigurationError(call.args) /\ call.env.load = "ok" /\ call.env.write = "ok") =>
                /\ call.code = 0
                /\ call.document # <<>>
                /\ call.document[1].symbols = call.env.symbols

\* what holds: the claim for the command lines the parser accepts, where
\* standard output takes the signs of the messages
C24_HoldsForParsedArgsAndUtf8 ==
    (/\ call.args.package # "missing" /\ call.args.path # "missing"
     /\ call.args.output # "missing" /\ call.args.docstring_style = "google"
     /\ call.env.stdout = "utf-8")
    => C24_ExitCodes

(***************************************************************************)
(* C25: _should_include, called on its own, rejects every object whose     *)
(* path contains an exclusion pattern, whatever its name and the flags of  *)
(* the configuration, also a dunder name that include_special admits.      *)
(***************************************************************************)
C25_ExcludedAlwaysRejected ==
    (flt.done /\ Excluded(flt.path)) => ~flt.result

\* what holds: an excluded path is rejected unless the name is a dunder name
\* admitted by include_special while include_private is off
C25_RejectedUnlessDunderAdmitted ==
    (flt.done /\ Excluded(flt.path)
     /\ ~(Dunder(flt.name) /\ cfg.include_special /\ ~cfg.include_private))
    => ~flt.result

(***************************************************************************)
(* C26: a recorded type name is qualified by its canonical path when that  *)
(* path has a separator; otherwise by the path of the member of that name  *)
(* in the nearest scope that has one, the owning symbol first, then its    *)
(* parents outward; with neither, it is recorded without a qualified name; *)
(* a string annotation is never qualified.                                 *)
(***************************************************************************)
\* scope k is the first that has the name, and the search reaches it
NearestScope(name, chain, k) ==
    /\ name \in chain[k].names
    /\ \A j \in 1..(k - 1) : name \notin chain[j].names
    /\ \A j \in 1..k : ~chain[j].raises

C26_QualifiedByNearestScope ==
    (call.done /\ call.name # "int") =>
        /\ Len(call.type_refs) = 1
        /\ call.type_refs[1].name = call.name
        /\ call.type_refs[1].qualifiedName =
              (IF call.type = "str" THEN <<>>
               ELSE IF Len(call.canonical) >= 2 THEN call.canonical
               ELSE IF \E k \in 1..Len(call.chain) : NearestScope(call.name, call.chain, k)
               THEN LET k == CHOOSE k \in 1..Len(call.chain) :
                                 NearestScope(call.name, call.chain, k)
                    IN call.chain[k].path \o <<call.name>>
               ELSE <<>>)

\* Foo has no canonical path with a separator; the owning symbol does not
\* have it, its parent and the package both do: the parent's member is taken
C26_Witness ==
    /\ call.done
    /\ call.type = "ExprName" /\ call.name = "Foo" /\ call.canonical = <<"Foo">>
    /\ Len(call.chain) = 3
    /\ "Foo" \notin call.chain[1].names
    /\ "Foo" \in call.chain[2].names
    /\ "Foo" \in call.chain[3].names
    /\ call.type_refs = <<[name |-> "Foo", qualifiedName |-> <<"pkg", "m", "Foo">>]>>

(***************************************************************************)
(* C27: with include_private and include_special both off, no segment of   *)
(* the qualified path of an emitted symbol begins with "_": a public       *)
(* member of a private module or class is not emitted.                     *)
(***************************************************************************)
\* segment k of the path begins at position i
SegmentStart(path, i) == i = 1 \/ path[i - 1] = "."

HasPrivateSegment(path) ==
    \E i \in 1..Len(path) : SegmentStart(path, i) /\ path[i] = "_"

C27_NoSymbolInsidePrivateScope ==
    (~cfg.include_private /\ ~cfg.include_special) =>
        /\ \A i \in 1..Len(symbols) : ~HasPrivateSegment(symbols[i].path)
        /\ \A i \in 1..Len(ir) : ~HasPrivateSegment(ir[i].qualifiedName)

\* what holds: the name of an emitted symbol itself does not begin with "_"
C27_OwnNameNotPrivate ==
    (~cfg.include_private /\ ~cfg.include_special) =>
        /\ \A i \in 1..Len(symbols) : symbols[i].name[1] # "_"
        /\ \A i \in 1..Len(ir) : ir[i].name[1] # "_"

(***************************************************************************)
(* C28: in the output of a run no member reference dangles: the refId of   *)
(* every member entry of every emitted class or module is the id of a      *)
(* record of the same symbols array, also for the entries of alias members *)
(* and of members that the exclusion patterns removed.                     *)
(***************************************************************************)
IrIds == {ir[j].id : j \in 1..Len(ir)}

C28_NoDanglingMemberRef ==
    pc = "done" =>
        \A i \in 1..Len(ir) :
            \A k \in 1..Len(ir[i].members) : ir[i].members[k].refId \in IrIds

\* what holds when no object fails: the entry of a member that the listing
\* object owns, that is no alias, not excluded and public, refers to the
\* member's record
C28_OwnedPublicMembersResolve ==
    pc = "done" =>
        \A i \in 1..Len(ir) : \A n, m \in Nodes :
            (/\ graph.path[n] = ir[i].qualifiedName
             /\ m \in Range(graph.members[n])
             /\ graph.parent[m] = n
             /\ ~graph.is_alias[m]
             /\ ~Excluded(graph.path[m])
             /\ graph.name[m][1] # "_"
             /\ \A x \in Nodes : graph.fault[x] = "none")
            => GenerateSymbolId(GetKind(m), graph.path[m]) \in IrIds

(***************************************************************************)
(* C29: under every combination of include_private and include_special,    *)
(* every emitted symbol whose parent class or module is emitted too is     *)
(* listed by name in the members of the parent's record.                   *)
(***************************************************************************)
\* record i is the record of node n
RecordOf(i, n) == ir[i].qualifiedName = graph.path[n]

ListedIn(j, name) == \E k \in 1..Len(ir[j].members) : ir[j].members[k].name = name

C29_EmittedChildIsListed ==
    pc = "done" =>
        \A m \in Nodes \ {Root} : \A i, j \in 1..Len(ir) :
            (/\ RecordOf(i, m)
             /\ RecordOf(j, graph.parent[m])
             /\ ir[j].kind \in {"class", "module"})
            => ListedIn(j, graph.name[m])

\* what holds: the claim for the symbols whose name does not begin with "_"
C29_PublicChildIsListed ==
    pc = "done" =>
        \A m \in Nodes \ {Root} : \A i, j \in 1..Len(ir) :
            (/\ RecordOf(i, m)
             /\ RecordOf(j, graph.parent[m])
             /\ ir[j].kind \in {"class", "module"}
             /\ graph.name[m][1] # "_")
            => ListedIn(j, graph.name[m])

(***************************************************************************)
(* C30: for every file path the normalized source path is relative: it     *)
(* does not begin with "/", also for an absolute path without a marker     *)
(* that has only one or two segments, such as /file.py.                    *)
(***************************************************************************)
\* the text of the path begins with "/": its first segment is empty and
\* another follows
BeginsWithSlash(path) == Len(path) >= 2 /\ path[1] = ""

C30_ResultIsRelative ==
    call.done => (~call.result.none /\ ~BeginsWithSlash(call.result.path))

\* what holds: the result begins with "/" only when it is the last two
\* segments of the input and the first of them is empty
C30_RelativeUnlessEmptyParentSegment ==
    (call.done /\ BeginsWithSlash(call.result.path)) =>
        /\ Len(call.file_path) >= 2
        /\ call.file_path[Len(call.file_path) - 1] = ""
        /\ call.result.path = SubSeq(call.file_path, Len(call.file_path) - 1,
                                     Len(call.file_path))

====
